---- MODULE Spec2Model ----
(***************************************************************************)
(* Model of the connection supervisor of auto-connect                      *)
(* (src/src/connection-manager.ts).                                        *)
(*                                                                         *)
(* Node.js runs the supervisor on one thread.  Every async method is a     *)
(* coroutine: it runs synchronously up to an await that really suspends    *)
(* (a file read or write, a timer, a process event) and is resumed later   *)
(* by the event loop.  A call in flight is a task, a stack of frames, one  *)
(* frame per async method on the call chain.  A frame whose pc is in       *)
(* WaitPcs is suspended on the event loop; a frame at any other pc is a    *)
(* continuation that runs before the event loop delivers anything else,    *)
(* which the guard NoRunnable of the environment actions expresses.        *)
(***************************************************************************)
EXTENDS Integers, Sequences, FiniteSets, Bags, TLC

\* ---------------------------------------------------------------- bounds
MaxObjs  == 3      \* ConnectionInstance objects ever created
MaxProcs == 2      \* child processes spawned and not released
MaxCmds  == 2      \* commands issued in one behaviour
MaxIds   == 2      \* length of the id list of a reorder request
MaxTasks == 1      \* calls in flight when an exit is observed (SpecCrash)

\* ------------------------------------------------------ program constants
\* MAX_CONNECTIONS is read from the environment (default 10); the model
\* runs with MAX_CONNECTIONS=2 so that a full list is within reach.
MAX_CONNECTIONS       == 2
CONNECTION_START_PORT == 1080

Names     == {"a", "b"}
LifeNames == {"a", "c"}
OrderNames == {"a", "b", "c"}
AddNames  == {"a", "b", "c"}
NewConfigs == {<<8080, 9090>>}  \* the configurations an update may bring
FailNames == {"a"}
FailOrders == {<<"b", "a">>}
MissingNames == {"c"}  \* ids that no instance has
BasePorts == {2000}    \* the basePort values a request body may carry
TempNames == {"a-b", "a_b", "ab"}
NewPorts  == {1080, 1081, 2000}  \* the basePort values of a port request
ExitCodes == {0, 1}
Times     == {1}       \* the values Date.now() returns
Oids      == 1..MaxObjs
Pids      == 1..MaxProcs

RUNNING  == "Running"
STOPPED  == "Stopped"
STARTING == "Starting"
ERROR    == "Error"

VARIABLES
  connections,   \* this.connections: the ordered list, as object references
  conn,          \* the heap of ConnectionInstance objects, by reference
  procs,         \* the child processes spawned so far
  tasks,         \* the calls in flight, a bag of tasks
  persisted,     \* the contents of connections.json
  lastRet,       \* the outcome the step just taken returned to its caller
  store,         \* the configuration store (others.json)
  autoRestart,   \* AUTO_RESTART_CONNECTIONS
  issued         \* the number of commands issued so far

vars == <<connections, conn, procs, tasks, persisted, lastRet, store,
          autoRestart, issued>>

\* ------------------------------------------------------------ data model
\* A free heap cell.  proc = 0 is null, connectionStartTime = 0 is null,
\* error = "" is undefined.
NoConn == [id |-> "", cfg |-> <<>>, port |-> 0, proc |-> 0,
           status |-> STOPPED, connectionStartTime |-> 0, error |-> ""]

NewConnection(name, cfg, port) ==
  [id |-> name, cfg |-> cfg, port |-> port, proc |-> 0,
   status |-> STOPPED, connectionStartTime |-> 0, error |-> ""]

\* A process that was not spawned yet.  o is the connection object the
\* handlers of setupProcessHandlers close over, cfg and path the temporary
\* configuration it is launched with and the path of that file.
NoProc == [st |-> "none", cfg |-> <<>>, killed |-> FALSE, o |-> 0, path |-> ""]

NoRet == [id |-> "", op |-> "", res |-> ""]

Frame(op, pc, id, o) ==
  [id |-> id, o |-> o, path |-> "", op |-> op, pc |-> pc, pid |-> 0,
   w |-> FALSE, i |-> 0, run |-> <<>>, live |-> FALSE, arr |-> <<>>,
   snap |-> <<>>, err |-> "", tmp |-> <<>>,
   ids |-> <<>>, basePort |-> 0, batch |-> 0, fresh |-> FALSE]

NewTask(f, bg) == [res |-> "", bg |-> bg, stack |-> <<f>>]

\* ---------------------------------------------------------------- errors
OK == "ok"
NotFoundMsg(id)   == "Connection \"" \o id \o "\" not found"
ExistsMsg(name)   == "Connection \"" \o name \o "\" already exists in the list"
MaxMsg            == "Maximum number of connections (" \o ToString(MAX_CONNECTIONS) \o ") reached"
ConfigMissingMsg(name) == "Config \"" \o name \o "\" not found"
NoInboundsMsg     == "No inbounds found in config"
TimeoutMsg        == "Connection startup timeout"
SpawnErrorMsg     == "spawn xray ENOENT"
ExitMsg(code)     == "Process exited with code " \o ToString(code)

\* Array.join(', ').
RECURSIVE Join(_)
Join(ids) ==
  IF ids = <<>> THEN ""
  ELSE IF Len(ids) = 1 THEN ids[1]
  ELSE ids[1] \o ", " \o Join(Tail(ids))

MissingMsg(ids) == "Connections not found: " \o Join(ids)

\* ------------------------------------------------------------ scheduling
WaitPcs == {"save_write", "add_list", "start_tmp", "start_spawnwait",
            "start_settle", "restart_wait", "all_wait", "child_done",
            "load_exists", "load_read", "load_list"}

TaskSet      == BagToSet(tasks)
Top(tk)      == tk.stack[Len(tk.stack)]
Runnable(tk) == Top(tk).pc \notin WaitPcs
NoRunnable   == \A tk \in TaskSet : ~Runnable(tk)
At(tk, op, pc) == Top(tk).op = op /\ Top(tk).pc = pc

BagAdd(b, x) == b (+) SetToBag({x})
BagDel(b, x) == b (-) SetToBag({x})
Swap(b, old, new) == BagAdd(BagDel(b, old), new)

\* The bag of the images of the tasks of b under the function f.
BagMap(f, b) ==
  [y \in {f[x] : x \in DOMAIN b} |->
     BagCardinality([x \in {z \in DOMAIN b : f[z] = y} |-> b[x]])]

\* The task with its top frame replaced.
WithTop(tk, f) == [tk EXCEPT !.stack = [@ EXCEPT ![Len(@)] = f]]

\* The task after its top frame, moved to pc cont, awaits the call of f.
Call(tk, cont, f) ==
  [tk EXCEPT !.stack = Append([@ EXCEPT ![Len(@)].pc = cont], f), !.res = ""]

\* The tasks after the top frame of task tk returns (r = OK) or throws r.
Returned(b, tk, r) ==
  IF Len(tk.stack) = 1
  THEN BagDel(b, tk)
  ELSE Swap(b, tk, [tk EXCEPT !.stack = SubSeq(@, 1, Len(@) - 1), !.res = r])

\* What the caller outside the supervisor (the request layer) receives.
Outcome(tk, r) ==
  IF Len(tk.stack) = 1 /\ ~tk.bg
  THEN [id |-> Top(tk).id, op |-> Top(tk).op, res |-> r]
  ELSE NoRet

\* --------------------------------------------------------------- helpers
\* getConnection with a find that takes the first instance whatever its id.
getConnectionMut(id) == IF connections = <<>> THEN 0 ELSE connections[1]

\* getConnection: Array.find returns the first match, 0 when there is none.
getConnection(id) ==
  IF \E k \in 1..Len(connections) : conn[connections[k]].id = id
  THEN connections[CHOOSE k \in 1..Len(connections) :
                     /\ conn[connections[k]].id = id
                     /\ \A j \in 1..(k - 1) : conn[connections[j]].id # id]
  ELSE 0

\* IsActive with the test for Starting forgotten.
IsActiveMut(status) == status = RUNNING

IsActive(status) == status = RUNNING \/ status = STARTING

\* The projection saveState writes for one instance.
Projection(c) ==
  [id |-> c.id, port |-> c.port, status |-> c.status,
   connectionStartTime |-> c.connectionStartTime, error |-> c.error,
   name |-> c.id]

Snapshot(cs, cn) == [k \in 1..Len(cs) |-> Projection(cn[cs[k]])]

SaveFrame(cs, cn) ==
  [Frame("save", "save_write", "", 0) EXCEPT !.snap = Snapshot(cs, cn)]

\* createTempConfig: only the first inbound's port is rewritten.
DerivedConfig(cfg, port) == [cfg EXCEPT ![1] = port]

NextPid == CHOOSE p \in Pids : procs[p].st = "none" /\
                               \A q \in Pids : q < p => procs[q].st # "none"
NextOid == CHOOSE o \in Oids : conn[o].id = "" /\
                               \A q \in Oids : q < o => conn[q].id # ""

\* ------------------------------------------------------- field updates
\* startConnection, lines 168-169.
StartingFields(c) == [c EXCEPT !.status = STARTING, !.error = ""]

\* RunningFields with the status left as it is.
RunningFieldsMut(c, now) == [c EXCEPT !.connectionStartTime = now]

\* startConnection, lines 202-203.
RunningFields(c, now) ==
  [c EXCEPT !.status = RUNNING, !.connectionStartTime = now]

\* CatchFields with the process handle kept.
CatchFieldsMut(c, msg) == [c EXCEPT !.status = ERROR, !.error = msg]

\* startConnection's catch block, lines 207-209.
CatchFields(c, msg) ==
  [c EXCEPT !.status = ERROR, !.error = msg, !.proc = 0]

\* StoppedFields with the last error kept.
StoppedFieldsMut(c) ==
  [c EXCEPT !.proc = 0, !.status = STOPPED, !.connectionStartTime = 0]

\* stopConnection, lines 229-236.
StoppedFields(c) ==
  [c EXCEPT !.proc = 0, !.status = STOPPED,
            !.connectionStartTime = 0, !.error = ""]

\* HandlerFields with the start time kept.
HandlerFieldsMut(c, msg) ==
  IF IsActive(c.status)
  THEN [c EXCEPT !.status = ERROR, !.error = msg, !.proc = 0]
  ELSE c

\* The close and error handlers, lines 440-444 and 460-464.
HandlerFields(c, msg) ==
  IF IsActive(c.status)
  THEN [c EXCEPT !.status = ERROR, !.error = msg, !.proc = 0,
                 !.connectionStartTime = 0]
  ELSE c

\* process.kill(): the signal is sent, the exit is observed later.  A
\* process whose exit was observed is not signalled.
Killed(ps, p) ==
  IF p = 0 \/ ps[p].st = "closed" THEN ps ELSE [ps EXCEPT ![p].killed = TRUE]

\* ------------------------------------------------------------------ Init
Init ==
  /\ connections = <<>>
  /\ conn = [o \in Oids |-> NoConn]
  /\ procs = [p \in Pids |-> NoProc]
  /\ tasks = EmptyBag
  /\ persisted = <<>>
  /\ lastRet = NoRet
  /\ store = [n \in Names |-> IF n = "a" THEN <<443, 8443>> ELSE <<443>>]
  /\ autoRestart = FALSE
  /\ issued = 0

\* The state after add("a") and add("b") have completed on the empty list.
InitListed ==
  /\ connections = <<1, 2>>
  /\ conn = [o \in Oids |->
              IF o = 1 THEN NewConnection("a", <<443, 8443>>, CONNECTION_START_PORT)
              ELSE IF o = 2 THEN NewConnection("b", <<443>>, CONNECTION_START_PORT + 1)
              ELSE NoConn]
  /\ procs = [p \in Pids |-> NoProc]
  /\ tasks = EmptyBag
  /\ persisted = Snapshot(connections, conn)
  /\ lastRet = NoRet
  /\ store = [n \in Names |-> IF n = "a" THEN <<443, 8443>> ELSE <<443>>]
  /\ autoRestart = FALSE
  /\ issued = 0


\* The files a previous run may have left: it had added c and a, the
\* configuration c was deleted from the store since, and a was Stopped or
\* Running when the run ended.
OldEntry(id, port, status) ==
  [id |-> id, port |-> port, status |-> status,
   connectionStartTime |-> IF status = RUNNING THEN 1 ELSE 0, error |-> "",
   name |-> id]

OldFiles ==
  {<<OldEntry("c", CONNECTION_START_PORT, STOPPED),
     OldEntry("a", CONNECTION_START_PORT + 1, st)>> : st \in {STOPPED, RUNNING}}

\* The server starts: the list is empty and loadState has been called; no
\* configuration is active in the single-connection manager, so
\* migrateFromSingleConnection does nothing.
InitBoot ==
  /\ connections = <<>>
  /\ conn = [o \in Oids |-> NoConn]
  /\ procs = [p \in Pids |-> NoProc]
  /\ tasks = SetToBag({NewTask(Frame("load", "load_exists", "", 0), TRUE)})
  /\ persisted \in OldFiles
  /\ lastRet = NoRet
  /\ store = [n \in Names |-> IF n = "a" THEN <<443, 8443>> ELSE <<443>>]
  /\ autoRestart = FALSE
  /\ issued = 0


\* The list [a, b] of a server started with AUTO_RESTART_CONNECTIONS set
\* or not set.
InitAuto ==
  /\ connections = <<1, 2>>
  /\ conn = [o \in Oids |->
              IF o = 1 THEN NewConnection("a", <<443, 8443>>, CONNECTION_START_PORT)
              ELSE IF o = 2 THEN NewConnection("b", <<443>>, CONNECTION_START_PORT + 1)
              ELSE NoConn]
  /\ procs = [p \in Pids |-> NoProc]
  /\ tasks = EmptyBag
  /\ persisted = Snapshot(connections, conn)
  /\ lastRet = NoRet
  /\ store = [n \in Names |-> IF n = "a" THEN <<443, 8443>> ELSE <<443>>]
  /\ autoRestart \in BOOLEAN
  /\ issued = 0

\* The list [a, b] where the configuration of b has no inbound.
InitBare ==
  /\ connections = <<1, 2>>
  /\ conn = [o \in Oids |->
              IF o = 1 THEN NewConnection("a", <<443, 8443>>, CONNECTION_START_PORT)
              ELSE IF o = 2 THEN NewConnection("b", <<>>, CONNECTION_START_PORT + 1)
              ELSE NoConn]
  /\ procs = [p \in Pids |-> NoProc]
  /\ tasks = EmptyBag
  /\ persisted = Snapshot(connections, conn)
  /\ lastRet = NoRet
  /\ store = [n \in Names |-> IF n = "a" THEN <<443, 8443>> ELSE <<>>]
  /\ autoRestart = FALSE
  /\ issued = 0

\* The files the server may find when it starts: none (the constructor has
\* created the empty one), the empty list that the removal of every
\* instance has left, or a list with a.
BootFiles ==
  {<<TRUE, <<>> >>, <<FALSE, <<>> >>,
   <<FALSE, <<OldEntry("a", CONNECTION_START_PORT, STOPPED)>> >>}

ActiveNames == {"", "a"}

\* The callback of app.listen (index.ts, lines 301-310) awaits loadState
\* and then migrateFromSingleConnection.  Its frame holds what the single
\* connection manager answers: id is getActiveConfigName() ("" is null),
\* w is getStatus() === 'Running'; fresh says that the constructor found
\* no connections.json (line 49) and created it.
ListenFrame(active, running, fresh) ==
  [Frame("listen", "listen_loaded", active, 0) EXCEPT !.w = running, !.fresh = fresh]

\* The server starts: the callback of app.listen awaits loadState.
InitMigrate ==
  /\ connections = <<>>
  /\ conn = [o \in Oids |-> NoConn]
  /\ procs = [p \in Pids |-> NoProc]
  /\ \E bf \in BootFiles, active \in ActiveNames, running \in BOOLEAN :
       /\ persisted = bf[2]
       /\ tasks = SetToBag({[res |-> "", bg |-> TRUE,
                              stack |-> <<ListenFrame(active, running, bf[1]),
                                          Frame("load", "load_exists", "", 0)>>]})
  /\ lastRet = NoRet
  /\ store = [n \in Names |-> IF n = "a" THEN <<443, 8443>> ELSE <<443>>]
  /\ autoRestart = FALSE
  /\ issued = 0

\* -------------------------------------------------------- action helpers
Env == UNCHANGED <<store, autoRestart, issued>>

\* The top frame of task tk returns (r = OK) or throws r; nothing else moves.
Finish(tk, r) ==
  /\ tasks' = Returned(tasks, tk, r)
  /\ lastRet' = Outcome(tk, r)
  /\ UNCHANGED <<connections, conn, procs, persisted>>

\* The task tk goes on as nt; the instances and the processes are given by
\* the caller.
Goes(tk, nt) == tasks' = Swap(tasks, tk, nt) /\ lastRet' = NoRet

\* A request arrives: the call starts as a new task.  counted says whether
\* the command counts against MaxCmds.
IssueFrame(f, counted) ==
  /\ NoRunnable
  /\ IF counted
     THEN issued < MaxCmds /\ issued' = issued + 1
     ELSE issued' = issued
  /\ tasks' = BagAdd(tasks, NewTask(f, FALSE))
  /\ lastRet' = NoRet
  /\ UNCHANGED <<connections, conn, procs, persisted, store, autoRestart>>

Issue(op, id, counted) == IssueFrame(Frame(op, "entry", id, 0), counted)

CmdStart(id)   == Issue("start", id, TRUE)
CmdStop(id)    == Issue("stop", id, TRUE)
CmdRestart(id) == Issue("restart", id, TRUE)
CmdRemove(id)  == Issue("remove", id, TRUE)

\* An add is bounded by the objects left to create: every add in flight
\* has an object to create.
AddsInFlight ==
  BagCardinality([tk \in {x \in TaskSet : x.stack[1].op = "add"} |-> tasks[tk]])

CmdAdd(name) ==
  /\ Cardinality({o \in Oids : conn[o].id # ""}) + AddsInFlight < MaxObjs
  /\ Issue("add", name, FALSE)

\* An add request whose body carries a basePort next to the name.
CmdAddPort(name, bp) ==
  /\ Cardinality({o \in Oids : conn[o].id # ""}) + AddsInFlight < MaxObjs
  /\ IssueFrame([Frame("add", "entry", name, 0) EXCEPT !.basePort = bp], FALSE)

\* The request layer (index.ts) has no route PUT /api/connections/:id/port
\* and the supervisor has no method to set a port: the request falls
\* through every route and is answered by the framework's 404 handler.
NoRouteMsg(id) == "Cannot PUT /api/connections/" \o id \o "/port"

CmdUpdatePort(id, newBasePort) ==
  IssueFrame([Frame("updatePort", "entry", id, 0) EXCEPT !.basePort = newBasePort], TRUE)

NoRoute(tk) ==
  /\ At(tk, "updatePort", "entry")
  /\ Finish(tk, NoRouteMsg(Top(tk).id))
  /\ Env

\* ------------------------------------------------------------- saveState
\* fs.writeJson completes: the snapshot taken when saveState was called
\* becomes the file.
SaveWrite(tk) ==
  /\ NoRunnable
  /\ At(tk, "save", "save_write")
  /\ persisted' = Top(tk).snap
  /\ tasks' = Returned(tasks, tk, OK)
  /\ lastRet' = Outcome(tk, OK)
  /\ UNCHANGED <<connections, conn, procs>>
  /\ Env

\* xrayManager.updateConfig (xray-manager.ts, lines 221-230): the write of
\* the store completes; no instance is touched.
UpdateConfig(name, newConfig) ==
  /\ NoRunnable
  /\ name \in DOMAIN store
  /\ store[name] # newConfig
  /\ store' = [store EXCEPT ![name] = newConfig]
  /\ lastRet' = NoRet
  /\ UNCHANGED <<connections, conn, procs, tasks, persisted, autoRestart, issued>>

WriteErrorMsg == "ENOSPC: no space left on device, write"

\* SaveCaught with the error thrown again.
SaveCaughtMut(err) == err

\* Lines 322-324: the error of the write is logged and saveState returns.
SaveCaught(err) == OK

\* fs.writeJson fails: the file is left as it was.
SaveFail(tk) ==
  /\ NoRunnable
  /\ At(tk, "save", "save_write")
  /\ Finish(tk, SaveCaught(WriteErrorMsg))
  /\ Env

\* ------------------------------------------------------- startConnection
\* NoInbounds with the test of createTempConfig lost.
NoInboundsMut(cfg) == FALSE

\* createTempConfig, line 408: cfg is the list of the inbound ports.
NoInbounds(cfg) == cfg = <<>>

\* ConfigOf that looks the configuration up in the store.
ConfigOfMut(c) == IF c.id \in DOMAIN store THEN store[c.id] ELSE c.cfg

\* createTempConfig, line 406: the clone of connection.config.
ConfigOf(c) == c.cfg

\* The characters String.replace keeps at line 420: /[^a-z0-9]/gi matches
\* every character that is neither a letter of either case nor a digit.
Kept ==
  {"a", "b", "c", "d", "e", "f", "g", "h", "i", "j", "k", "l", "m",
   "n", "o", "p", "q", "r", "s", "t", "u", "v", "w", "x", "y", "z",
   "A", "B", "C", "D", "E", "F", "G", "H", "I", "J", "K", "L", "M",
   "N", "O", "P", "Q", "R", "S", "T", "U", "V", "W", "X", "Y", "Z",
   "0", "1", "2", "3", "4", "5", "6", "7", "8", "9"}

\* The characters of a name; the names of TempNames are spelled out, every
\* other name used here is one character long.
Chars(name) ==
  CASE name = ""    -> <<>>
    [] name = "a-b" -> <<"a", "-", "b">>
    [] name = "a_b" -> <<"a", "_", "b">>
    [] name = "ab"  -> <<"a", "b">>
    [] OTHER        -> <<name>>

\* id.replace(/[^a-z0-9]/gi, '_'), character by character.
Sanitized(chars) ==
  [i \in 1..Len(chars) |-> IF chars[i] \in Kept THEN chars[i] ELSE "_"]

RECURSIVE Concat(_)
Concat(chars) == IF chars = <<>> THEN "" ELSE chars[1] \o Concat(Tail(chars))

\* Line 420: the path of the temporary configuration file of instance id,
\* under TEMP_CONFIG_DIR.
tempConfigPath(id) == "connection_" \o Concat(Sanitized(Chars(id))) \o ".json"

\* Lines 155-173: up to the write of the temporary configuration file.
StartEntry(tk) ==
  /\ At(tk, "start", "entry")
  /\ LET f == Top(tk)
         o == getConnection(f.id)
     IN IF o = 0
        THEN Finish(tk, NotFoundMsg(f.id))
        ELSE IF IsActive(conn[o].status)
        THEN Finish(tk, OK)
        ELSE IF NoInbounds(conn[o].cfg)
        THEN LET cn == [conn EXCEPT ![o] = CatchFields(StartingFields(@), NoInboundsMsg)]
                 g  == [f EXCEPT !.o = o, !.err = NoInboundsMsg]
             IN /\ conn' = cn
                /\ Goes(tk, Call(WithTop(tk, g), "start_failed", SaveFrame(connections, cn)))
                /\ UNCHANGED <<connections, procs, persisted>>
        ELSE LET g == [f EXCEPT !.o = o, !.pc = "start_tmp",
                                !.tmp = DerivedConfig(ConfigOf(conn[o]), conn[o].port),
                                !.path = tempConfigPath(conn[o].id)]
             IN /\ conn' = [conn EXCEPT ![o] = StartingFields(@)]
                /\ Goes(tk, WithTop(tk, g))
                /\ UNCHANGED <<connections, procs, persisted>>
  /\ Env

\* Lines 177-197: the temporary file is written; spawn, install the
\* handlers, wait for the spawn event, the error event or the timeout.
StartTmpWritten(tk) ==
  /\ NoRunnable
  /\ At(tk, "start", "start_tmp")
  /\ \E p \in Pids : procs[p].st = "none"
  /\ LET f == Top(tk)
         p == NextPid
     IN /\ procs' = [procs EXCEPT ![p] =
                       [st |-> "spawning", cfg |-> f.tmp, killed |-> FALSE, o |-> f.o,
                        path |-> f.path]]
        /\ conn' = [conn EXCEPT ![f.o].proc = p]
        /\ Goes(tk, WithTop(tk, [f EXCEPT !.pc = "start_spawnwait", !.pid = p]))
  /\ UNCHANGED <<connections, persisted>>
  /\ Env

\* The calls of startConnection that wait for an event of process p.
Waiting(p) ==
  {tk \in TaskSet : At(tk, "start", "start_spawnwait") /\ Top(tk).pid = p}

\* The catch block, lines 206-210, entered from the wait with message msg.
CaughtConn(cn, p, msg) ==
  [o \in Oids |-> IF \E tk \in Waiting(p) : Top(tk).o = o
                  THEN CatchFields(cn[o], msg) ELSE cn[o]]

CaughtTask(tk, cs, cn, p, msg) ==
  IF At(tk, "start", "start_spawnwait") /\ Top(tk).pid = p
  THEN Call(WithTop(tk, [Top(tk) EXCEPT !.err = msg]), "start_failed",
            SaveFrame(cs, cn))
  ELSE tk

\* Lines 184-186: the startup timer fires before any process event.
StartTimeout(tk) ==
  /\ NoRunnable
  /\ At(tk, "start", "start_spawnwait")
  /\ LET p  == Top(tk).pid
         cn == CaughtConn(conn, p, TimeoutMsg)
     IN /\ conn' = cn
        /\ Goes(tk, CaughtTask(tk, connections, cn, p, TimeoutMsg))
  /\ UNCHANGED <<connections, procs, persisted>>
  /\ Env

\* Lines 199-204: the settle delay is over.
StartSettled(tk, now) ==
  /\ NoRunnable
  /\ At(tk, "start", "start_settle")
  /\ LET f  == Top(tk)
         cn == [conn EXCEPT ![f.o] = RunningFields(@, now)]
     IN /\ conn' = cn
        /\ Goes(tk, Call(tk, "start_saved", SaveFrame(connections, cn)))
  /\ UNCHANGED <<connections, procs, persisted>>
  /\ Env

\* Line 205: the save is done, the call returns.
StartSaved(tk) == At(tk, "start", "start_saved") /\ Finish(tk, OK) /\ Env

\* Lines 211-212: the save of the catch block is done, the error is rethrown.
StartFailed(tk) == At(tk, "start", "start_failed") /\ Finish(tk, Top(tk).err) /\ Env

\* -------------------------------------------------------- stopConnection
\* AlreadyStopped with the early return lost.
AlreadyStoppedMut(c) == FALSE

\* Line 224.
AlreadyStopped(c) == c.status = STOPPED

\* Lines 216-237.
StopEntry(tk) ==
  /\ At(tk, "stop", "entry")
  /\ LET f == Top(tk)
         o == getConnection(f.id)
     IN IF o = 0
        THEN Finish(tk, NotFoundMsg(f.id))
        ELSE IF AlreadyStopped(conn[o])
        THEN Finish(tk, OK)
        ELSE LET cn == [conn EXCEPT ![o] = StoppedFields(@)]
             IN /\ procs' = Killed(procs, conn[o].proc)
                /\ conn' = cn
                /\ Goes(tk, Call(WithTop(tk, [f EXCEPT !.o = o]), "stop_saved",
                                 SaveFrame(connections, cn)))
                /\ UNCHANGED <<connections, persisted>>
  /\ Env

\* Line 238.
StopSaved(tk) == At(tk, "stop", "stop_saved") /\ Finish(tk, OK) /\ Env

\* ----------------------------------------------------- restartConnection
\* WasRunning that takes every instance that is not Stopped for running.
WasRunningMut(c) == c.status # STOPPED

\* Line 249.
WasRunning(c) == c.status = RUNNING

\* Lines 241-251.
RestartEntry(tk) ==
  /\ At(tk, "restart", "entry")
  /\ LET f == Top(tk)
         o == getConnection(f.id)
     IN IF o = 0
        THEN Finish(tk, NotFoundMsg(f.id))
        ELSE /\ Goes(tk, Call(WithTop(tk, [f EXCEPT !.o = o, !.w = WasRunning(conn[o])]),
                              "restart_stopped", Frame("stop", "entry", f.id, 0)))
             /\ UNCHANGED <<connections, conn, procs, persisted>>
  /\ Env

\* Lines 251-254: stopConnection returned, the settle timer is set.
RestartStopped(tk) ==
  /\ At(tk, "restart", "restart_stopped")
  /\ IF tk.res # OK
     THEN Finish(tk, tk.res)
     ELSE /\ Goes(tk, WithTop(tk, [Top(tk) EXCEPT !.pc = "restart_wait"]))
          /\ UNCHANGED <<connections, conn, procs, persisted>>
  /\ Env

\* Lines 254-258: the settle timer fires.
RestartTimer(tk) ==
  /\ NoRunnable
  /\ At(tk, "restart", "restart_wait")
  /\ IF Top(tk).w
     THEN /\ Goes(tk, Call(tk, "restart_started", Frame("start", "entry", Top(tk).id, 0)))
          /\ UNCHANGED <<connections, conn, procs, persisted>>
     ELSE Finish(tk, OK)
  /\ Env

\* Line 257: startConnection returned or threw.
RestartStarted(tk) ==
  At(tk, "restart", "restart_started") /\ Finish(tk, tk.res) /\ Env

\* -------------------------------------------------------- process events
\* A process whose exit was observed raises no further event.
Closed == [NoProc EXCEPT !.st = "closed"]

\* The 'spawn' event: the promise of lines 183-197 resolves and the settle
\* delay of line 200 starts.
Settling(p, tk) ==
  IF At(tk, "start", "start_spawnwait") /\ Top(tk).pid = p
  THEN WithTop(tk, [Top(tk) EXCEPT !.pc = "start_settle"])
  ELSE tk

ProcSpawn(p) ==
  /\ NoRunnable
  /\ procs[p].st = "spawning"
  /\ procs' = [procs EXCEPT ![p].st = "alive"]
  /\ tasks' = BagMap([tk \in DOMAIN tasks |-> Settling(p, tk)], tasks)
  /\ lastRet' = NoRet
  /\ UNCHANGED <<connections, conn, persisted>>
  /\ Env

\* The fire-and-forget saveState of the handlers, lines 445 and 465.
BgSave(cs, cn) == NewTask(SaveFrame(cs, cn), TRUE)

\* The 'error' event of a process that could not be spawned: the handler of
\* lines 457-467 runs, then the promise of lines 193-196 rejects into the
\* catch block.  The 'close' event that follows finds the status Error.
ProcError(p) ==
  /\ NoRunnable
  /\ procs[p].st = "spawning"
  /\ procs' = [procs EXCEPT ![p] = Closed]
  /\ LET o   == procs[p].o
         cn1 == [conn EXCEPT ![o] = HandlerFields(@, SpawnErrorMsg)]
         cn2 == CaughtConn(cn1, p, SpawnErrorMsg)
         ts  == BagMap([tk \in DOMAIN tasks |->
                          CaughtTask(tk, connections, cn2, p, SpawnErrorMsg)],
                       tasks)
     IN /\ conn' = cn2
        /\ tasks' = IF IsActive(conn[o].status)
                    THEN BagAdd(ts, BgSave(connections, cn1))
                    ELSE ts
  /\ lastRet' = NoRet
  /\ UNCHANGED <<connections, persisted>>
  /\ Env

\* AutoRestartOn that takes the flag for set.
AutoRestartOnMut == TRUE

\* Line 448.
AutoRestartOn == autoRestart

\* Lines 450-452: the start the close handler calls and does not await.
AutoStart(id) == NewTask(Frame("start", "entry", id, 0), TRUE)

\* The 'close' event of a process that had spawned, lines 437-455.
ProcClose(p, code) ==
  /\ NoRunnable
  /\ procs[p].st = "alive"
  /\ procs' = [procs EXCEPT ![p] = Closed]
  /\ LET o  == procs[p].o
         cn == [conn EXCEPT ![o] = HandlerFields(@, ExitMsg(code))]
         sv == IF IsActive(conn[o].status)
               THEN BagAdd(tasks, BgSave(connections, cn)) ELSE tasks
     IN /\ conn' = cn
        /\ tasks' = IF IsActive(conn[o].status) /\ AutoRestartOn
                    THEN BagAdd(sv, AutoStart(conn[o].id))
                    ELSE sv
  /\ lastRet' = NoRet
  /\ UNCHANGED <<connections, persisted>>
  /\ Env

\* --------------------------------------------------------- addConnection
\* AlreadyListed with the duplicate check lost.
AlreadyListedMut(name) == FALSE

\* Line 61.
AlreadyListed(name) == getConnection(name) # 0

\* Lines 57-71: the two checks, then the read of the configuration store.
AddEntry(tk) ==
  /\ At(tk, "add", "entry")
  /\ LET f == Top(tk)
     IN IF AlreadyListed(f.id)
        THEN Finish(tk, ExistsMsg(f.id))
        ELSE IF Len(connections) >= MAX_CONNECTIONS
        THEN Finish(tk, MaxMsg)
        ELSE /\ Goes(tk, WithTop(tk, [f EXCEPT !.pc = "add_list"]))
             /\ UNCHANGED <<connections, conn, procs, persisted>>
  /\ Env

\* Lines 72-89: listConfigs has answered.
AddListed(tk) ==
  /\ NoRunnable
  /\ At(tk, "add", "add_list")
  /\ LET f == Top(tk)
     IN IF f.id \notin DOMAIN store
        THEN Finish(tk, ConfigMissingMsg(f.id))
        ELSE /\ \E o \in Oids : conn[o].id = ""
             /\ LET o  == NextOid
                    cn == [conn EXCEPT ![o] =
                             NewConnection(f.id, store[f.id],
                                           CONNECTION_START_PORT + Len(connections))]
                    cs == Append(connections, o)
                IN /\ conn' = cn
                   /\ connections' = cs
                   /\ Goes(tk, Call(WithTop(tk, [f EXCEPT !.o = o]), "add_saved",
                                    SaveFrame(cs, cn)))
             /\ UNCHANGED <<procs, persisted>>
  /\ Env

\* Line 90.
AddSaved(tk) == At(tk, "add", "add_saved") /\ Finish(tk, OK) /\ Env

\* ----------------------------------------------------------- updatePorts
\* A for-of loop that is suspended iterates over the array object it
\* started on: it sees a later push, it does not see a later assignment to
\* this.connections.  live says that the array is still this.connections.
Arr(f) == IF f.live THEN connections ELSE f.arr

DetachedTask(tk) ==
  [tk EXCEPT !.stack =
     [j \in DOMAIN tk.stack |->
        IF tk.stack[j].live
        THEN [tk.stack[j] EXCEPT !.live = FALSE, !.arr = connections]
        ELSE tk.stack[j]]]

UPortsFrame == [Frame("uports", "uports_scan", "", 0) EXCEPT !.i = 1, !.live = TRUE]

\* assignPort, lines 368-370.
assignPort(index) == CONNECTION_START_PORT + index

\* Lines 386-388: forEach over this.connections.
AssignedPorts(cs, cn) ==
  [o \in Oids |->
     IF \E k \in 1..Len(cs) : cs[k] = o
     THEN LET k == CHOOSE k \in 1..Len(cs) :
                     cs[k] = o /\ \A j \in (k + 1)..Len(cs) : cs[j] # o
          IN [cn[o] EXCEPT !.port = assignPort(k - 1)]
     ELSE cn[o]]

\* Lines 378-399: the first loop up to its next stopConnection, or, when
\* the loop is over, the port assignment and the start of the second loop.
UPortsScan(tk) ==
  /\ At(tk, "uports", "uports_scan")
  /\ LET f    == Top(tk)
         a    == Arr(f)
         hits == {j \in f.i..Len(a) : IsActive(conn[a[j]].status)}
     IN IF tk.res \notin {"", OK}
        THEN Finish(tk, tk.res)
        ELSE IF hits # {}
        THEN LET j == CHOOSE j \in hits : \A k \in hits : j <= k
                 g == [f EXCEPT !.i = j + 1, !.run = Append(@, a[j])]
             IN /\ Goes(tk, Call(WithTop(tk, g), "uports_scan",
                                 Frame("stop", "entry", conn[a[j]].id, 0)))
                /\ UNCHANGED <<connections, conn, procs, persisted>>
        ELSE LET cn == AssignedPorts(connections, conn)
                 g  == [f EXCEPT !.i = 1]
             IN /\ conn' = cn
                /\ Goes(tk, IF f.run # <<>>
                            THEN Call(WithTop(tk, g), "uports_started",
                                      Frame("start", "entry", cn[f.run[1]].id, 0))
                            ELSE Call(WithTop(tk, g), "uports_saved",
                                      SaveFrame(connections, cn)))
                /\ UNCHANGED <<connections, procs, persisted>>
  /\ Env

\* Lines 391-399: a startConnection of the second loop returned or threw
\* (the error is caught and logged).
UPortsStarted(tk) ==
  /\ At(tk, "uports", "uports_started")
  /\ LET f == Top(tk)
         g == [f EXCEPT !.i = f.i + 1]
     IN Goes(tk, IF f.i + 1 <= Len(f.run)
                 THEN Call(WithTop(tk, g), "uports_started",
                           Frame("start", "entry", conn[f.run[f.i + 1]].id, 0))
                 ELSE Call(WithTop(tk, g), "uports_saved", SaveFrame(connections, conn)))
  /\ UNCHANGED <<connections, conn, procs, persisted>>
  /\ Env

UPortsSaved(tk) == At(tk, "uports", "uports_saved") /\ Finish(tk, OK) /\ Env

\* ------------------------------------------------------ removeConnection
\* Lines 93-104.
RemoveEntry(tk) ==
  /\ At(tk, "remove", "entry")
  /\ LET f == Top(tk)
         o == getConnection(f.id)
     IN IF o = 0
        THEN Finish(tk, NotFoundMsg(f.id))
        ELSE /\ Goes(tk, IF IsActive(conn[o].status)
                         THEN Call(WithTop(tk, [f EXCEPT !.o = o]), "remove_filter",
                                   Frame("stop", "entry", f.id, 0))
                         ELSE WithTop([tk EXCEPT !.res = OK],
                                      [f EXCEPT !.o = o, !.pc = "remove_filter"]))
             /\ UNCHANGED <<connections, conn, procs, persisted>>
  /\ Env

\* Filtered with the result of filter dropped.
FilteredMut(cs, id) == cs

\* Line 107: this.connections is replaced by the filtered list.
Filtered(cs, id) == SelectSeq(cs, LAMBDA o : conn[o].id # id)

\* Lines 107-110.
RemoveFilter(tk) ==
  /\ At(tk, "remove", "remove_filter")
  /\ IF tk.res # OK
     THEN Finish(tk, tk.res)
     ELSE /\ connections' = Filtered(connections, Top(tk).id)
          /\ tasks' = Swap(BagMap([t \in DOMAIN tasks |-> DetachedTask(t)], tasks),
                           DetachedTask(tk),
                           Call(DetachedTask(tk), "remove_ported", UPortsFrame))
          /\ lastRet' = NoRet
          /\ UNCHANGED <<conn, procs, persisted>>
  /\ Env

\* Lines 110-111: updatePorts returned or threw.
RemovePorted(tk) ==
  /\ At(tk, "remove", "remove_ported")
  /\ IF tk.res # OK
     THEN Finish(tk, tk.res)
     ELSE /\ Goes(tk, Call(tk, "remove_saved", SaveFrame(connections, conn)))
          /\ UNCHANGED <<connections, conn, procs, persisted>>
  /\ Env

\* Line 112.
RemoveSaved(tk) == At(tk, "remove", "remove_saved") /\ Finish(tk, OK) /\ Env

\* ---------------------------------------------------- reorderConnections
\* The id lists a reorder request may carry.
IdSeqs == UNION {[1..n -> OrderNames] : n \in 0..MaxIds}

CmdReorder(ids) ==
  IssueFrame([Frame("reorder", "entry", "", 0) EXCEPT !.ids = ids], TRUE)

\* Lines 119-120.
MissingIds(cs, cn, ids) ==
  SelectSeq(ids, LAMBDA id : \A k \in 1..Len(cs) : cn[cs[k]].id # id)

\* Lines 126-132: every id of ids is looked up with find.
Reordered(ids) == [k \in 1..Len(ids) |-> getConnection(ids[k])]

\* Lines 115-137.
ReorderEntry(tk) ==
  /\ At(tk, "reorder", "entry")
  /\ LET f == Top(tk)
         missingIds == MissingIds(connections, conn, f.ids)
     IN IF missingIds # <<>>
        THEN Finish(tk, MissingMsg(missingIds))
        ELSE /\ connections' = Reordered(f.ids)
             /\ tasks' = Swap(BagMap([t \in DOMAIN tasks |-> DetachedTask(t)], tasks),
                              DetachedTask(tk),
                              Call(DetachedTask(tk), "reorder_ported", UPortsFrame))
             /\ lastRet' = NoRet
             /\ UNCHANGED <<conn, procs, persisted>>
  /\ Env

\* Lines 137-138: updatePorts returned or threw.
ReorderPorted(tk) ==
  /\ At(tk, "reorder", "reorder_ported")
  /\ IF tk.res # OK
     THEN Finish(tk, tk.res)
     ELSE /\ Goes(tk, Call(tk, "reorder_saved", SaveFrame(connections, conn)))
          /\ UNCHANGED <<connections, conn, procs, persisted>>
  /\ Env

\* Line 139.
ReorderSaved(tk) == At(tk, "reorder", "reorder_saved") /\ Finish(tk, OK) /\ Env

\* ---------------------------------------------------- startAll, stopAll
\* A batch call maps the list to one promise per instance, each the call of
\* startConnection or stopConnection with a catch that logs, and awaits
\* Promise.all of them.  The promises of one batch carry its number.
AllOps == {"startAll", "stopAll"}
ChildOp(op) == IF op = "startAll" THEN "start" ELSE "stop"

CmdStartAll ==
  IssueFrame([Frame("startAll", "entry", "", 0) EXCEPT !.batch = issued + 1], TRUE)
CmdStopAll ==
  IssueFrame([Frame("stopAll", "entry", "", 0) EXCEPT !.batch = issued + 1], TRUE)

\* The promises of batch b, and those of them that are settled.
Children(ts, b) ==
  {t \in BagToSet(ts) : /\ t.stack[1].batch = b
                        /\ t.stack[1].pc \in {"child_ret", "child_done"}}
Settled(ts, b) ==
  BagCardinality([t \in {c \in Children(ts, b) : Top(c).pc = "child_done"} |-> ts[t]])

\* JoinReady for Promise.race in the place of Promise.all.
JoinReadyMut(ts, b, n) == Settled(ts, b) >= 1

\* Lines 272 and 285: Promise.all resolves when all n promises are settled.
JoinReady(ts, b, n) == Settled(ts, b) = n

\* Lines 266-270 and 279-283: the map calls startConnection or
\* stopConnection for the next instance; that call runs up to its first
\* suspension before the map goes on.  After the last instance the batch
\* awaits Promise.all.
AllMap(tk) ==
  /\ Top(tk).op \in AllOps
  /\ Top(tk).pc = "entry"
  /\ \A t \in TaskSet \ {tk} : ~Runnable(t)
  /\ LET f == Top(tk)
     IN IF f.i < Len(connections)
        THEN LET id == conn[connections[f.i + 1]].id
                 child == [res |-> "", bg |-> TRUE,
                           stack |-> <<[Frame(f.op, "child_ret", id, 0)
                                          EXCEPT !.batch = f.batch],
                                       Frame(ChildOp(f.op), "entry", id, 0)>>]
             IN tasks' = BagAdd(Swap(tasks, tk, WithTop(tk, [f EXCEPT !.i = f.i + 1])),
                                child)
        ELSE tasks' = Swap(tasks, tk,
                           WithTop(tk, [f EXCEPT !.pc =
                                          IF JoinReady(tasks, f.batch, f.i)
                                          THEN "all_done" ELSE "all_wait"]))
  /\ lastRet' = NoRet
  /\ UNCHANGED <<connections, conn, procs, persisted>>
  /\ Env

\* Lines 267-269 and 280-282: the call for one instance returned or threw;
\* the error is logged and the promise is settled.  When it was the last
\* one the batch awaits, the batch is resumed.
ChildRet(tk) ==
  /\ Top(tk).op \in AllOps
  /\ Top(tk).pc = "child_ret"
  /\ LET f  == Top(tk)
         ts == Swap(tasks, tk, [tk EXCEPT !.stack = <<[f EXCEPT !.pc = "child_done"]>>,
                                          !.res = ""])
     IN tasks' =
          IF \E pt \in BagToSet(ts) :
               /\ At(pt, f.op, "all_wait")
               /\ Top(pt).batch = f.batch
               /\ JoinReady(ts, f.batch, Top(pt).i)
          THEN LET pt == CHOOSE pt \in BagToSet(ts) :
                           At(pt, f.op, "all_wait") /\ Top(pt).batch = f.batch
               IN Swap(ts, pt, WithTop(pt, [Top(pt) EXCEPT !.pc = "all_done"]))
          ELSE ts
  /\ lastRet' = NoRet
  /\ UNCHANGED <<connections, conn, procs, persisted>>
  /\ Env

\* Lines 273-274 and 286-287: the batch returns.
AllDone(tk) ==
  /\ Top(tk).op \in AllOps
  /\ Top(tk).pc = "all_done"
  /\ tasks' = [t \in DOMAIN tasks \ ({tk} \cup {c \in Children(tasks, Top(tk).batch) :
                                                  Top(c).pc = "child_done"})
                 |-> tasks[t]]
  /\ lastRet' = [id |-> "", op |-> Top(tk).op, res |-> OK]
  /\ UNCHANGED <<connections, conn, procs, persisted>>
  /\ Env

\* ------------------------------------------------------------- loadState
\* Line 329: pathExists has answered (the constructor creates the file).
LoadExists(tk) ==
  /\ NoRunnable
  /\ At(tk, "load", "load_exists")
  /\ Goes(tk, WithTop(tk, [Top(tk) EXCEPT !.pc = "load_read"]))
  /\ UNCHANGED <<connections, conn, procs, persisted>>
  /\ Env

\* Line 334: readJson has answered with the file as it is now.
LoadRead(tk) ==
  /\ NoRunnable
  /\ At(tk, "load", "load_read")
  /\ Goes(tk, WithTop(tk, [Top(tk) EXCEPT !.pc = "load_list", !.snap = persisted]))
  /\ UNCHANGED <<connections, conn, procs, persisted>>
  /\ Env

\* Loaded with every instance taken for stopped.
LoadedMut(e, cfg) ==
  [id |-> e.id, cfg |-> cfg, port |-> e.port, proc |-> 0, status |-> STOPPED,
   connectionStartTime |-> 0, error |-> e.error]

\* Lines 344-353: the instance built from one entry of the file.
Loaded(e, cfg) ==
  [id |-> e.id, cfg |-> cfg, port |-> e.port, proc |-> 0, status |-> e.status,
   connectionStartTime |-> e.connectionStartTime, error |-> e.error]

\* The k-th free heap cell.
FreeOid(k) ==
  CHOOSE o \in Oids :
    /\ conn[o].id = ""
    /\ Cardinality({q \in Oids : conn[q].id = "" /\ q < o}) = k - 1

\* Lines 337-360: listConfigs has answered; the list is rebuilt from the
\* entries whose configuration the store holds.
LoadListed(tk) ==
  /\ NoRunnable
  /\ At(tk, "load", "load_list")
  /\ LET kept == SelectSeq(Top(tk).snap, LAMBDA e : e.id \in DOMAIN store)
     IN /\ Cardinality({o \in Oids : conn[o].id = ""}) >= Len(kept)
        /\ conn' = [o \in Oids |->
                      IF \E k \in 1..Len(kept) : FreeOid(k) = o
                      THEN LET k == CHOOSE k \in 1..Len(kept) : FreeOid(k) = o
                           IN Loaded(kept[k], store[kept[k].id])
                      ELSE conn[o]]
        /\ connections' = [k \in 1..Len(kept) |-> FreeOid(k)]
  /\ tasks' = Returned(BagMap([t \in DOMAIN tasks |-> DetachedTask(t)], tasks),
                       DetachedTask(tk), OK)
  /\ lastRet' = NoRet
  /\ UNCHANGED <<procs, persisted>>
  /\ Env

\* ------------------------------------------- migrateFromSingleConnection
\* index.ts, line 306: loadState has returned.
ListenLoaded(tk) ==
  /\ At(tk, "listen", "listen_loaded")
  /\ Goes(tk, Call(tk, "listen_migrated",
                   [Frame("migrate", "entry", Top(tk).id, 0) EXCEPT !.w = Top(tk).w]))
  /\ UNCHANGED <<connections, conn, procs, persisted>>
  /\ Env

\* index.ts, lines 306-309: migrateFromSingleConnection has returned.
ListenMigrated(tk) == At(tk, "listen", "listen_migrated") /\ Finish(tk, OK) /\ Env

\* Line 476.
ListIsEmpty == Len(connections) = 0

\* Lines 472-490.
MigrateEntry(tk) ==
  /\ At(tk, "migrate", "entry")
  /\ IF ~ListIsEmpty \/ Top(tk).id = ""
     THEN Finish(tk, OK)
     ELSE /\ Goes(tk, Call(tk, "migrate_added", Frame("add", "entry", Top(tk).id, 0)))
          /\ UNCHANGED <<connections, conn, procs, persisted>>
  /\ Env

\* Lines 490-500: addConnection returned or threw (the error is caught).
MigrateAdded(tk) ==
  /\ At(tk, "migrate", "migrate_added")
  /\ IF tk.res = OK /\ Top(tk).w
     THEN /\ Goes(tk, Call(tk, "migrate_started", Frame("start", "entry", Top(tk).id, 0)))
          /\ UNCHANGED <<connections, conn, procs, persisted>>
     ELSE Finish(tk, OK)
  /\ Env

\* Lines 494-500: startConnection returned or threw (the error is caught).
MigrateStarted(tk) == At(tk, "migrate", "migrate_started") /\ Finish(tk, OK) /\ Env

\* ------------------------------------------------------------------ Next
AddSteps ==
  \/ \E tk \in TaskSet : AddEntry(tk)
  \/ \E tk \in TaskSet : AddListed(tk)
  \/ \E tk \in TaskSet : AddSaved(tk)

RemoveSteps ==
  \/ \E tk \in TaskSet : RemoveEntry(tk)
  \/ \E tk \in TaskSet : RemoveFilter(tk)
  \/ \E tk \in TaskSet : RemovePorted(tk)
  \/ \E tk \in TaskSet : RemoveSaved(tk)
  \/ \E tk \in TaskSet : UPortsScan(tk)
  \/ \E tk \in TaskSet : UPortsSaved(tk)

StartSteps ==
  \/ \E tk \in TaskSet : StartEntry(tk)
  \/ \E tk \in TaskSet : StartTmpWritten(tk)
  \/ \E tk \in TaskSet : StartTimeout(tk)
  \/ \E tk \in TaskSet, now \in Times : StartSettled(tk, now)
  \/ \E tk \in TaskSet : StartSaved(tk)
  \/ \E tk \in TaskSet : StartFailed(tk)

StopSteps ==
  \/ \E tk \in TaskSet : StopEntry(tk)
  \/ \E tk \in TaskSet : StopSaved(tk)

RestartSteps ==
  \/ \E tk \in TaskSet : RestartEntry(tk)
  \/ \E tk \in TaskSet : RestartStopped(tk)
  \/ \E tk \in TaskSet : RestartTimer(tk)
  \/ \E tk \in TaskSet : RestartStarted(tk)

ReorderSteps ==
  \/ \E tk \in TaskSet : ReorderEntry(tk)
  \/ \E tk \in TaskSet : ReorderPorted(tk)
  \/ \E tk \in TaskSet : ReorderSaved(tk)

LoadSteps ==
  \/ \E tk \in TaskSet : LoadExists(tk)
  \/ \E tk \in TaskSet : LoadRead(tk)
  \/ \E tk \in TaskSet : LoadListed(tk)

AllSteps ==
  \/ \E tk \in TaskSet : AllMap(tk)
  \/ \E tk \in TaskSet : ChildRet(tk)
  \/ \E tk \in TaskSet : AllDone(tk)

ProcessEvents ==
  \/ \E p \in Pids : ProcSpawn(p)
  \/ \E p \in Pids : ProcError(p)
  \/ \E p \in Pids, code \in ExitCodes : ProcClose(p, code)

\* Every command, on the empty list.
Next ==
  \/ \E n \in Names : CmdAdd(n)
  \/ \E n \in Names : CmdRemove(n)
  \/ \E n \in Names : CmdStart(n)
  \/ \E n \in Names : CmdStop(n)
  \/ \E n \in Names : CmdRestart(n)
  \/ AddSteps
  \/ RemoveSteps
  \/ \E tk \in TaskSet : UPortsStarted(tk)
  \/ StartSteps
  \/ StopSteps
  \/ RestartSteps
  \/ \E tk \in TaskSet : SaveWrite(tk)
  \/ ProcessEvents

Spec == Init /\ [][Next]_vars

\* The life cycle of the listed instances: start, stop and restart.
NextLife ==
  \/ \E n \in LifeNames : CmdStart(n)
  \/ \E n \in LifeNames : CmdStop(n)
  \/ \E n \in LifeNames : CmdRestart(n)
  \/ StartSteps
  \/ StopSteps
  \/ RestartSteps
  \/ \E tk \in TaskSet : SaveWrite(tk)
  \/ ProcessEvents

SpecLife == InitListed /\ [][NextLife]_vars

\* The scheduling of the event loop: a continuation that is ready runs,
\* a timer that is set fires (lines 184-186, 200 and 254) and a file write
\* that was started completes (lines 173 and 314).  Nothing is assumed on
\* the processes: they may never raise an event.
Fairness ==
  /\ WF_vars(StartSteps)
  /\ WF_vars(StopSteps)
  /\ WF_vars(RestartSteps)
  /\ WF_vars(\E tk \in TaskSet : SaveWrite(tk))

FairLife == SpecLife /\ Fairness

\* The ChildProcess object of a process whose exit was observed is
\* released once no instance holds it; the heap cell is free again.
Reap(p) ==
  /\ NoRunnable
  /\ procs[p].st = "closed"
  /\ \A o \in Oids : conn[o].proc # p
  /\ procs' = [procs EXCEPT ![p] = NoProc]
  /\ lastRet' = NoRet
  /\ UNCHANGED <<connections, conn, tasks, persisted>>
  /\ Env

\* An exit is observed while at most MaxTasks calls are in flight.
Exit(p, code) == BagCardinality(tasks) <= MaxTasks /\ ProcClose(p, code)

\* One start of a, with and without the automatic restart, where the
\* processes may exit again and again.
NextCrash ==
  \/ \E n \in FailNames : issued = 0 /\ CmdStart(n)
  \/ StartSteps
  \/ \E tk \in TaskSet : SaveWrite(tk)
  \/ \E p \in Pids : ProcSpawn(p)
  \/ \E p \in Pids : ProcError(p)
  \/ \E p \in Pids, code \in ExitCodes : Exit(p, code)
  \/ \E p \in Pids : Reap(p)

SpecCrash == InitAuto /\ [][NextCrash]_vars

\* The event loop, and processes that all come to an end: a process that
\* was spawned raises 'spawn' or 'error', and a process that runs exits.
CrashLoop ==
  /\ SpecCrash
  /\ Fairness
  /\ WF_vars(\E p \in Pids : ProcSpawn(p) \/ ProcError(p))
  /\ WF_vars(\E p \in Pids, code \in ExitCodes : Exit(p, code))
  /\ WF_vars(\E p \in Pids : Reap(p))

\* The list: add and remove, no instance started.
NextList ==
  \/ \E n \in Names : CmdAdd(n)
  \/ \E n \in Names : CmdRemove(n)
  \/ AddSteps
  \/ RemoveSteps
  \/ \E tk \in TaskSet : SaveWrite(tk)

SpecList == Init /\ [][NextList]_vars

\* Removal of a listed instance that may be started.
NextRemove ==
  \/ \E n \in LifeNames : CmdStart(n)
  \/ \E n \in LifeNames : CmdRemove(n)
  \/ RemoveSteps
  \/ StartSteps
  \/ StopSteps
  \/ \E tk \in TaskSet : SaveWrite(tk)
  \/ ProcessEvents

SpecRemove == InitListed /\ [][NextRemove]_vars

\* Reordering of the listed instances, which may be started.
NextOrder ==
  \/ \E ids \in IdSeqs : CmdReorder(ids)
  \/ \E n \in Names : CmdStart(n)
  \/ ReorderSteps
  \/ \E tk \in TaskSet : UPortsScan(tk)
  \/ \E tk \in TaskSet : UPortsStarted(tk)
  \/ \E tk \in TaskSet : UPortsSaved(tk)
  \/ StartSteps
  \/ StopSteps
  \/ \E tk \in TaskSet : SaveWrite(tk)
  \/ ProcessEvents

SpecOrder == InitListed /\ [][NextOrder]_vars

\* Adds alone, with names the store does not hold and with base ports.
NextAdd ==
  \/ \E n \in AddNames : CmdAdd(n)
  \/ \E n \in AddNames, bp \in BasePorts : CmdAddPort(n, bp)
  \/ AddSteps
  \/ \E tk \in TaskSet : SaveWrite(tk)

SpecAdd == Init /\ [][NextAdd]_vars

\* Commands on an id that is not in the list, while an instance is started.
NextMissing ==
  \/ \E n \in LifeNames : CmdStart(n)
  \/ \E n \in MissingNames : CmdStop(n)
  \/ \E n \in MissingNames : CmdRestart(n)
  \/ \E n \in MissingNames : CmdRemove(n)
  \/ StartSteps
  \/ \E tk \in TaskSet : StopEntry(tk)
  \/ \E tk \in TaskSet : RestartEntry(tk)
  \/ \E tk \in TaskSet : RemoveEntry(tk)
  \/ \E tk \in TaskSet : SaveWrite(tk)
  \/ ProcessEvents

SpecMissing == InitListed /\ [][NextMissing]_vars

\* The batch commands on the listed instances.
NextAll ==
  \/ CmdStartAll
  \/ CmdStopAll
  \/ AllSteps
  \/ StartSteps
  \/ StopSteps
  \/ \E tk \in TaskSet : SaveWrite(tk)
  \/ ProcessEvents

SpecAll == InitListed /\ [][NextAll]_vars

\* No loadState is in flight.
LoadDone == \A tk \in TaskSet : tk.stack[1].op # "load"

\* An add that counts against MaxCmds.
CmdAddCounted(name) == Issue("add", name, TRUE)

\* The start of the server on the file of a previous run; once the file is
\* loaded, adds and startAll.
NextLoad ==
  \/ LoadSteps
  \/ \E n \in Names : LoadDone /\ CmdAddCounted(n)
  \/ LoadDone /\ CmdStartAll
  \/ AddSteps
  \/ AllSteps
  \/ StartSteps
  \/ \E tk \in TaskSet : SaveWrite(tk)
  \/ ProcessEvents

SpecLoad == InitBoot /\ [][NextLoad]_vars

\* Starts and stops where one configuration has no inbound.
NextBare ==
  \/ \E n \in Names : CmdStart(n)
  \/ \E n \in Names : CmdStop(n)
  \/ StartSteps
  \/ StopSteps
  \/ \E tk \in TaskSet : SaveWrite(tk)
  \/ ProcessEvents

SpecBare == InitBare /\ [][NextBare]_vars

\* Port requests on the listed instances, which may be started.
NextPort ==
  \/ \E n \in Names, bp \in NewPorts : CmdUpdatePort(n, bp)
  \/ \E tk \in TaskSet : NoRoute(tk)
  \/ \E n \in Names : CmdStart(n)
  \/ StartSteps
  \/ \E tk \in TaskSet : SaveWrite(tk)
  \/ ProcessEvents

SpecPort == InitListed /\ [][NextPort]_vars

\* Starts and stops with the automatic restart.
NextAuto ==
  \/ \E n \in Names : CmdStart(n)
  \/ \E n \in Names : CmdStop(n)
  \/ StartSteps
  \/ StopSteps
  \/ \E tk \in TaskSet : SaveWrite(tk)
  \/ ProcessEvents

SpecAuto == InitAuto /\ [][NextAuto]_vars

\* Every mutating command, with file writes that may fail.
NextFail ==
  \/ \E n \in FailNames : CmdAddCounted(n)
  \/ \E n \in FailNames : CmdRemove(n)
  \/ \E ids \in FailOrders : CmdReorder(ids)
  \/ \E n \in FailNames : CmdStart(n)
  \/ \E n \in FailNames : CmdStop(n)
  \/ AddSteps
  \/ RemoveSteps
  \/ \E tk \in TaskSet : UPortsStarted(tk)
  \/ ReorderSteps
  \/ StartSteps
  \/ StopSteps
  \/ \E tk \in TaskSet : SaveWrite(tk)
  \/ \E tk \in TaskSet : SaveFail(tk)
  \/ ProcessEvents

SpecFail == InitListed /\ [][NextFail]_vars

MigrateSteps ==
  \/ \E tk \in TaskSet : ListenLoaded(tk)
  \/ \E tk \in TaskSet : MigrateEntry(tk)
  \/ \E tk \in TaskSet : MigrateAdded(tk)
  \/ \E tk \in TaskSet : MigrateStarted(tk)
  \/ \E tk \in TaskSet : ListenMigrated(tk)

\* The start of the server up to the end of the migration.
NextMigrate ==
  \/ LoadSteps
  \/ MigrateSteps
  \/ AddSteps
  \/ StartSteps
  \/ \E tk \in TaskSet : SaveWrite(tk)
  \/ ProcessEvents

SpecMigrate == InitMigrate /\ [][NextMigrate]_vars

\* Updates of the stored configuration of a, next to its start, restart,
\* removal and new add; b is never started, so that the second loop of
\* updatePorts has nothing to start.
NextConfig ==
  \/ \E n \in FailNames, cfg \in NewConfigs : UpdateConfig(n, cfg)
  \/ \E n \in FailNames : CmdAdd(n)
  \/ \E n \in FailNames : CmdRemove(n)
  \/ \E n \in FailNames : CmdStart(n)
  \/ \E n \in FailNames : CmdRestart(n)
  \/ AddSteps
  \/ RemoveSteps
  \/ StartSteps
  \/ StopSteps
  \/ RestartSteps
  \/ \E tk \in TaskSet : SaveWrite(tk)
  \/ ProcessEvents

SpecConfig == InitListed /\ [][NextConfig]_vars

\* The state after add("a-b") has completed on the empty list, where the
\* configuration store holds names that differ only in characters that are
\* neither letters nor digits: addConfig (xray-manager.ts, lines 196-204)
\* takes any name.
InitTemp ==
  /\ connections = <<1>>
  /\ conn = [o \in Oids |->
              IF o = 1 THEN NewConnection("a-b", <<443>>, CONNECTION_START_PORT)
              ELSE NoConn]
  /\ procs = [p \in Pids |-> NoProc]
  /\ tasks = EmptyBag
  /\ persisted = Snapshot(connections, conn)
  /\ lastRet = NoRet
  /\ store = [n \in TempNames |-> <<443>>]
  /\ autoRestart = FALSE
  /\ issued = 0

\* Adds and starts of instances with such names.
NextTemp ==
  \/ \E n \in TempNames : CmdAddCounted(n)
  \/ \E n \in TempNames : CmdStart(n)
  \/ AddSteps
  \/ StartSteps
  \/ \E tk \in TaskSet : SaveWrite(tk)
  \/ ProcessEvents

SpecTemp == InitTemp /\ [][NextTemp]_vars

\* At most one continuation is ready to run at a time, next to the map of a
\* batch that waits for the call it has just made.
OneRunnable ==
  Cardinality({tk \in TaskSet :
                 Runnable(tk) /\ ~(Top(tk).op \in AllOps /\ Top(tk).pc = "entry")}) <= 1


\* ================================================================ claims
Listed == {connections[k] : k \in 1..Len(connections)}
Spawned == {p \in Pids : procs[p].st # "none"}
ExitMsgs == {ExitMsg(code) : code \in ExitCodes}

\* The step just taken called saveState on the state it left.
SaveCalled ==
  \E tk \in BagToSet(tasks') :
    /\ Top(tk).op = "save"
    /\ Top(tk).pc = "save_write"
    /\ Top(tk).snap = Snapshot(connections', conn')
    /\ CopiesIn(tk, tasks') > CopiesIn(tk, tasks)

\* The step just taken called saveState.
AnySaveCalled ==
  \E tk \in BagToSet(tasks') :
    /\ Top(tk).op = "save"
    /\ CopiesIn(tk, tasks') > CopiesIn(tk, tasks)

\* The top frame of tk has returned r to its caller: to the request layer
\* when it was the call of a command, to the frame below otherwise.
ReturnedTo(tk, r) ==
  IF Len(tk.stack) = 1
  THEN /\ tasks' = BagDel(tasks, tk)
       /\ ~tk.bg => lastRet' = [id |-> Top(tk).id, op |-> Top(tk).op, res |-> r]
  ELSE \E nt \in BagToSet(tasks') :
         /\ nt.stack = SubSeq(tk.stack, 1, Len(tk.stack) - 1)
         /\ nt.res = r
         /\ tasks' = BagAdd(BagDel(tasks, tk), nt)

\* C1: a start(id) that finds the instance Starting or Running returns
\* success, spawns nothing and changes no field of any instance; a start
\* that finds it Stopped or Error makes it Starting (or Error) in the same
\* step, so that a second start issued right after it finds it Starting.
C1_StartWhenActiveIsNoOp ==
  [][\A tk \in TaskSet :
       (At(tk, "start", "entry") /\ getConnection(Top(tk).id) # 0) =>
          LET o == getConnection(Top(tk).id)
          IN IF conn[o].status \in {STARTING, RUNNING}
             THEN /\ conn' = conn
                  /\ procs' = procs
                  /\ connections' = connections
                  /\ persisted' = persisted
                  /\ ReturnedTo(tk, OK)
             ELSE conn'[o].status \in {STARTING, ERROR}]_vars

\* A start has returned success while another start of the same instance
\* is still writing the temporary file, and no process was spawned yet.
C1_Witness ==
  /\ lastRet = [id |-> "a", op |-> "start", res |-> OK]
  /\ \E tk \in TaskSet : At(tk, "start", "start_tmp") /\ Top(tk).id = "a"
  /\ Spawned = {}

\* C2: the ids of the instances in the list are pairwise distinct.
C2_UniqueIds ==
  \A i, j \in 1..Len(connections) :
    i # j => conn[connections[i]].id # conn[connections[j]].id

\* C3: an instance of the list holds a process handle only if its status
\* is Starting or Running.
C3_HandleOnlyWhenActive ==
  NoRunnable =>
    \A o \in Listed : conn[o].proc # 0 => conn[o].status \in {STARTING, RUNNING}

\* C4: the exit of a process observed while its instance is Starting or
\* Running makes the instance Error with the exit code message, no process
\* handle and no start time, and calls saveState; observed while the
\* instance is Stopped or Error it changes no field of any instance.
C4_ExitObserved ==
  [][\A p \in Pids :
       (procs[p].st = "alive" /\ procs'[p].st = "closed") =>
          LET o == procs[p].o
          IN /\ \A q \in Oids \ {o} : conn'[q] = conn[q]
             /\ connections' = connections
             /\ IF conn[o].status \in {STARTING, RUNNING}
                THEN /\ conn'[o].status = ERROR
                     /\ conn'[o].error \in ExitMsgs
                     /\ conn'[o].proc = 0
                     /\ conn'[o].connectionStartTime = 0
                     /\ conn'[o].id = conn[o].id
                     /\ conn'[o].port = conn[o].port
                     /\ SaveCalled
                ELSE conn'[o] = conn[o] /\ ~AnySaveCalled]_vars

\* The exit of a running process was observed: the instance is Error with
\* the exit code message and the process is closed.
C4_Witness ==
  \E o \in Listed :
    /\ conn[o].status = ERROR
    /\ conn[o].error \in ExitMsgs
    /\ \E p \in Pids : procs[p].st = "closed"

\* C5: when the startup timer fires before the spawn is observed, or the
\* spawn fails, the instance becomes Error with the failure message and no
\* process handle, saveState is called, and once the save is done the
\* start call throws that error to its caller.
C5_StartFailure ==
  [][/\ \A tk \in TaskSet :
          (At(tk, "start", "start_spawnwait") /\ CopiesIn(tk, tasks') = 0
             /\ procs'[Top(tk).pid].st # "alive") =>
             LET o   == Top(tk).o
                 msg == IF procs'[Top(tk).pid].st = "spawning"
                        THEN TimeoutMsg ELSE SpawnErrorMsg
             IN /\ conn'[o].status = ERROR
                /\ conn'[o].error = msg
                /\ conn'[o].proc = 0
                /\ SaveCalled
                /\ \E nt \in BagToSet(tasks') :
                     /\ Len(nt.stack) = Len(tk.stack) + 1
                     /\ nt.stack[Len(tk.stack)].pc = "start_failed"
                     /\ nt.stack[Len(tk.stack)].err = msg
     /\ \A tk \in TaskSet :
          At(tk, "start", "start_failed") =>
             ReturnedTo(tk, Top(tk).err) /\ Top(tk).err # OK]_vars

\* A start has thrown the timeout to the request layer and the instance is
\* Error with that message and no process handle.
C5_Witness ==
  /\ lastRet = [id |-> "a", op |-> "start", res |-> TimeoutMsg]
  /\ \E o \in Listed : /\ conn[o].id = "a"
                       /\ conn[o].status = ERROR
                       /\ conn[o].error = TimeoutMsg
                       /\ conn[o].proc = 0

\* C6: every change of an instance's status is Stopped to Starting,
\* Starting to Running, Starting to Error, Running to Error, Error to
\* Starting, or a change to Stopped.
AllowedTransitions ==
  {<<STOPPED, STARTING>>, <<STARTING, RUNNING>>, <<STARTING, ERROR>>,
   <<RUNNING, ERROR>>, <<ERROR, STARTING>>}

C6_AllowedTransitions ==
  [][\A o \in Listed :
       conn'[o].status # conn[o].status =>
         \/ <<conn[o].status, conn'[o].status>> \in AllowedTransitions
         \/ conn'[o].status = STOPPED]_vars

\* C7: a stop(id) that finds the instance not Stopped signals the process
\* of its handle, clears the handle, the start time and the error, makes
\* the instance Stopped and calls saveState, all in one step: the exit of
\* the process is not waited for.
C7_StopEffect ==
  [][\A tk \in TaskSet :
       (At(tk, "stop", "entry") /\ getConnection(Top(tk).id) # 0
          /\ conn[getConnection(Top(tk).id)].status # STOPPED) =>
          LET o == getConnection(Top(tk).id)
              p == conn[o].proc
          IN /\ conn'[o] = [id |-> conn[o].id, cfg |-> conn[o].cfg,
                            port |-> conn[o].port, proc |-> 0,
                            status |-> STOPPED, connectionStartTime |-> 0,
                            error |-> ""]
             /\ \A q \in Oids \ {o} : conn'[q] = conn[q]
             /\ p # 0 => /\ procs'[p].st = procs[p].st
                         /\ procs[p].st # "closed" => procs'[p].killed
             /\ \A q \in Pids \ {p} : procs'[q] = procs[q]
             /\ SaveCalled]_vars

\* A stop has returned success, the instance is Stopped, and the process
\* it signalled has not exited yet.
C7_Witness ==
  /\ lastRet = [id |-> "a", op |-> "stop", res |-> OK]
  /\ \E o \in Listed : conn[o].id = "a" /\ conn[o].status = STOPPED /\ conn[o].proc = 0
  /\ \E p \in Pids : procs[p].st = "alive" /\ procs[p].killed

\* C8: a stop(id) that finds the instance Stopped returns success and
\* changes nothing: no field of any instance, no process, no call of
\* saveState, no write of the file.
C8_StopWhenStoppedIsNoOp ==
  [][\A tk \in TaskSet :
       (At(tk, "stop", "entry") /\ getConnection(Top(tk).id) # 0
          /\ conn[getConnection(Top(tk).id)].status = STOPPED) =>
          /\ conn' = conn
          /\ procs' = procs
          /\ connections' = connections
          /\ persisted' = persisted
          /\ ~AnySaveCalled
          /\ ReturnedTo(tk, OK)]_vars

\* A stop of an instance that was never started has returned success.
C8_Witness ==
  /\ lastRet = [id |-> "a", op |-> "stop", res |-> OK]
  /\ Spawned = {}
  /\ \E o \in Listed : conn[o].id = "a" /\ conn[o].status = STOPPED


\* C9: restart(id) records whether the instance is Running, calls stop
\* and waits; when the settle timer fires it calls start if and only if
\* the instance was Running, and otherwise returns success having spawned
\* nothing.  The stop it calls leaves the instance Stopped, the start it
\* calls makes the instance Running when the settle delay of the start
\* ends, and restart returns what start returned.
C9_RestartOnlyIfRunning ==
  [][/\ \A tk \in TaskSet :
          (At(tk, "restart", "entry") /\ getConnection(Top(tk).id) # 0) =>
             /\ conn' = conn
             /\ procs' = procs
             /\ \E nt \in BagToSet(tasks') :
                  /\ Len(nt.stack) = Len(tk.stack) + 1
                  /\ nt.stack[Len(tk.stack)].op = "restart"
                  /\ nt.stack[Len(tk.stack)].w =
                       (conn[getConnection(Top(tk).id)].status = RUNNING)
                  /\ Top(nt) = Frame("stop", "entry", Top(tk).id, 0)
     /\ \A tk \in TaskSet :
          (At(tk, "stop", "entry") /\ Len(tk.stack) > 1
             /\ tk.stack[Len(tk.stack) - 1].op = "restart"
             /\ getConnection(Top(tk).id) # 0) =>
             conn'[getConnection(Top(tk).id)].status = STOPPED
     /\ \A tk \in TaskSet :
          (At(tk, "restart", "restart_wait") /\ CopiesIn(tk, tasks') = 0) =>
             /\ conn' = conn
             /\ procs' = procs
             /\ IF Top(tk).w
                THEN \E nt \in BagToSet(tasks') :
                       /\ Len(nt.stack) = Len(tk.stack) + 1
                       /\ Top(nt) = Frame("start", "entry", Top(tk).id, 0)
                ELSE ReturnedTo(tk, OK)
     /\ \A tk \in TaskSet :
          (At(tk, "start", "start_settle") /\ Len(tk.stack) > 1
             /\ tk.stack[Len(tk.stack) - 1].op = "restart"
             /\ CopiesIn(tk, tasks') = 0) =>
             conn'[Top(tk).o].status = RUNNING
     /\ \A tk \in TaskSet :
          At(tk, "restart", "restart_started") => ReturnedTo(tk, tk.res)]_vars

\* A restart of a Running instance has returned success: the first process
\* was signalled, a second one was spawned and the instance is Running.
C9_Witness ==
  /\ lastRet = [id |-> "a", op |-> "restart", res |-> OK]
  /\ Cardinality(Spawned) = 2
  /\ \E p \in Pids : procs[p].killed
  /\ \E o \in Listed : conn[o].id = "a" /\ conn[o].status = RUNNING /\ conn[o].proc # 0

\* C10: remove(id) of an instance that is Running or Starting calls stop
\* first, which signals the process of the handle and makes the instance
\* Stopped; remove then deletes every instance with that id from the list,
\* keeping the order of the others; the list holds no instance with that id
\* when remove returns, and an id that is not in the list stays out of it.
C10_RemoveStopsAndDeletes ==
  [][/\ \A tk \in TaskSet :
          (At(tk, "remove", "entry") /\ getConnection(Top(tk).id) # 0
             /\ conn[getConnection(Top(tk).id)].status \in {RUNNING, STARTING}) =>
             /\ connections' = connections
             /\ \E nt \in BagToSet(tasks') :
                  /\ Len(nt.stack) = 2
                  /\ nt.stack[1].op = "remove"
                  /\ Top(nt) = Frame("stop", "entry", Top(tk).id, 0)
     /\ \A tk \in TaskSet :
          (At(tk, "stop", "entry") /\ Len(tk.stack) = 2
             /\ tk.stack[1].op = "remove"
             /\ getConnection(Top(tk).id) # 0
             /\ conn[getConnection(Top(tk).id)].status # STOPPED) =>
             LET o == getConnection(Top(tk).id)
                 p == conn[o].proc
             IN /\ conn'[o].status = STOPPED
                /\ conn'[o].proc = 0
                /\ (p # 0 /\ procs[p].st # "closed") => procs'[p].killed
     /\ \A tk \in TaskSet :
          (At(tk, "remove", "remove_filter") /\ tk.res = OK) =>
             /\ connections' =
                  SelectSeq(connections, LAMBDA o : conn[o].id # Top(tk).id)
             /\ conn' = conn
     /\ (lastRet'.op = "remove" /\ lastRet'.res = OK) =>
          \A k \in 1..Len(connections') : conn'[connections'[k]].id # lastRet'.id
     /\ \A n \in Names :
          (\A k \in 1..Len(connections) : conn[connections[k]].id # n) =>
          (\A k \in 1..Len(connections') : conn'[connections'[k]].id # n)]_vars

\* A remove of a started instance has returned success: its process was
\* signalled and the list no longer holds the instance.
C10_Witness ==
  /\ lastRet = [id |-> "a", op |-> "remove", res |-> OK]
  /\ \A o \in Listed : conn[o].id # "a"
  /\ \E p \in Pids : procs[p].killed /\ conn[procs[p].o].id = "a"


\* The id list ids names every instance of the list exactly once.
NamesEachOnce(ids) ==
  /\ Len(ids) = Len(connections)
  /\ \A k \in 1..Len(connections) :
       Cardinality({j \in 1..Len(ids) : ids[j] = conn[connections[k]].id}) = 1

\* C11: a reorder(ids) whose ids names every instance of the list exactly
\* once puts the list in the order of ids; any other reorder(ids) fails
\* with an error and leaves the list, its order and every instance
\* unchanged.
C11_ReorderValidates ==
  [][\A tk \in TaskSet :
       At(tk, "reorder", "entry") =>
          IF NamesEachOnce(Top(tk).ids)
          THEN /\ Len(connections') = Len(Top(tk).ids)
               /\ \A k \in 1..Len(connections') :
                    conn[connections'[k]].id = Top(tk).ids[k]
          ELSE /\ tasks' = BagDel(tasks, tk)
               /\ lastRet'.op = "reorder"
               /\ lastRet'.res # OK
               /\ connections' = connections
               /\ conn' = conn]_vars

\* C12: the list never holds more than MAX_CONNECTIONS instances.
C12_AtMostMax == Len(connections) <= MAX_CONNECTIONS

\* C13: an add that finds an instance with its id, or a full list, or no
\* configuration of its name in the store, throws the corresponding error
\* to its caller; no step that returns an error of add changes the list,
\* an instance or the file, or calls saveState.
C13_FailingAddChangesNothing ==
  [][/\ \A tk \in TaskSet :
          At(tk, "add", "entry") =>
             IF getConnection(Top(tk).id) # 0
             THEN ReturnedTo(tk, ExistsMsg(Top(tk).id))
             ELSE Len(connections) >= MAX_CONNECTIONS => ReturnedTo(tk, MaxMsg)
     /\ \A tk \in TaskSet :
          (At(tk, "add", "add_list") /\ CopiesIn(tk, tasks') < CopiesIn(tk, tasks)
             /\ Top(tk).id \notin DOMAIN store) =>
             ReturnedTo(tk, ConfigMissingMsg(Top(tk).id))
     /\ (lastRet'.op = "add" /\ lastRet'.res # OK) =>
          /\ connections' = connections
          /\ conn' = conn
          /\ persisted' = persisted
          /\ ~AnySaveCalled]_vars

\* An add on a full list has thrown the capacity error, and the list still
\* holds MAX_CONNECTIONS instances.
C13_Witness ==
  /\ lastRet.op = "add"
  /\ lastRet.res = MaxMsg
  /\ Len(connections) = MAX_CONNECTIONS
  /\ persisted = Snapshot(connections, conn)

\* C14: a successful add appends exactly one instance at the end of the
\* list, with the name as id, Stopped, with no process handle and no start
\* time, with the configuration of the store, and with the base port of the
\* request when it gave one and the next sequential port otherwise; it
\* changes no other instance and calls saveState.
C14_AddAppends ==
  [][\A tk \in TaskSet :
       (At(tk, "add", "add_list") /\ CopiesIn(tk, tasks') < CopiesIn(tk, tasks)
          /\ Top(tk).id \in DOMAIN store) =>
          /\ Len(connections') = Len(connections) + 1
          /\ SubSeq(connections', 1, Len(connections)) = connections
          /\ LET o == connections'[Len(connections')]
                 f == Top(tk)
             IN /\ conn'[o] =
                     NewConnection(f.id, store[f.id],
                                   IF f.basePort # 0 THEN f.basePort
                                   ELSE CONNECTION_START_PORT + Len(connections))
                /\ \A q \in Oids \ {o} : conn'[q] = conn[q]
          /\ SaveCalled]_vars

\* C15: a start, stop, restart or remove whose id no instance of the list
\* has throws the not-found error to its caller and changes nothing: not
\* the list, no field of an instance, no process, not the file, and
\* saveState is not called.
C15_UnknownIdChangesNothing ==
  [][\A tk \in TaskSet :
       (/\ Top(tk).op \in {"start", "stop", "restart", "remove"}
        /\ Top(tk).pc = "entry"
        /\ \A k \in 1..Len(connections) : conn[connections[k]].id # Top(tk).id) =>
          /\ ReturnedTo(tk, "Connection \"" \o Top(tk).id \o "\" not found")
          /\ connections' = connections
          /\ conn' = conn
          /\ procs' = procs
          /\ persisted' = persisted
          /\ ~AnySaveCalled]_vars

\* A restart of an unknown id has thrown not-found while instance a is
\* running, and a is still running.
C15_Witness ==
  /\ lastRet = [id |-> "c", op |-> "restart",
                res |-> "Connection \"c\" not found"]
  /\ \E o \in Listed : conn[o].id = "a" /\ conn[o].status = RUNNING /\ conn[o].proc # 0
  /\ \A p \in Pids : ~procs[p].killed

\* C16: a startAll or stopAll calls startConnection or stopConnection for
\* every instance of the list, in list order; the return or the error of
\* one of these calls changes no instance, no process and no other call in
\* flight; the batch returns only when every one of its calls has returned
\* or thrown, and then it returns success.
C16_BatchCompletes ==
  [][/\ \A tk \in TaskSet :
          (/\ Top(tk).op \in AllOps
           /\ Top(tk).pc = "entry"
           /\ CopiesIn(tk, tasks') = 0
           /\ Top(tk).i < Len(connections)) =>
             /\ \E nt \in BagToSet(tasks') :
                  /\ Len(nt.stack) = 2
                  /\ nt.stack[1].batch = Top(tk).batch
                  /\ Top(nt) = Frame(IF Top(tk).op = "startAll" THEN "start" ELSE "stop",
                                     "entry", conn[connections[Top(tk).i + 1]].id, 0)
                  /\ CopiesIn(nt, tasks') > CopiesIn(nt, tasks)
             /\ \E pt \in BagToSet(tasks') :
                  /\ At(pt, Top(tk).op, "entry")
                  /\ Top(pt).batch = Top(tk).batch
                  /\ Top(pt).i = Top(tk).i + 1
     /\ \A tk \in TaskSet :
          (Top(tk).op \in AllOps /\ Top(tk).pc = "child_ret") =>
             /\ conn' = conn
             /\ procs' = procs
             /\ connections' = connections
             /\ lastRet' = NoRet
             /\ \A t \in TaskSet :
                  Top(t).op \notin AllOps => CopiesIn(t, tasks') = CopiesIn(t, tasks)
     /\ \A tk \in TaskSet :
          (Top(tk).op \in AllOps /\ Top(tk).pc = "all_done") =>
             /\ \A c \in TaskSet :
                  (c # tk /\ c.stack[1].batch = Top(tk).batch) =>
                     Len(c.stack) = 1 /\ Top(c).pc = "child_done"
             /\ BagCardinality([c \in {x \in TaskSet : x # tk /\ x.stack[1].batch = Top(tk).batch}
                                  |-> tasks[c]]) = Top(tk).i
             /\ lastRet' = [id |-> "", op |-> Top(tk).op, res |-> OK]
     /\ lastRet'.op \in AllOps => lastRet'.res = OK]_vars

\* A startAll has returned success: the spawn of the first instance
\* failed and it is Error, the second instance is Running.
C16_Witness ==
  /\ lastRet = [id |-> "", op |-> "startAll", res |-> OK]
  /\ conn[connections[1]].status = ERROR
  /\ conn[connections[1]].error = SpawnErrorMsg
  /\ conn[connections[2]].status = RUNNING
  /\ conn[connections[2]].proc # 0
  /\ procs[conn[connections[2]].proc].st = "alive"

\* C17: no two distinct instances of the list whose status is Running or
\* Starting have the same port.
C17_ActivePortsDistinct ==
  NoRunnable =>
    \A i, j \in 1..Len(connections) :
      (/\ connections[i] # connections[j]
       /\ IsActive(conn[connections[i]].status)
       /\ IsActive(conn[connections[j]].status)) =>
         conn[connections[i]].port # conn[connections[j]].port

\* C18: no step of a reorder call changes the port of an instance.
C18_ReorderKeepsPorts ==
  [][\A tk \in TaskSet :
       (tk.stack[1].op = "reorder" /\ CopiesIn(tk, tasks') = 0) =>
          \A o \in Oids : conn'[o].port = conn[o].port]_vars

\* C19: whenever no call is in flight, the instance at position N of the
\* list, counted from 0, has port CONNECTION_START_PORT + N.
C19_PortsFollowPosition ==
  tasks = EmptyBag =>
    \A k \in 1..Len(connections) :
      conn[connections[k]].port = CONNECTION_START_PORT + (k - 1)

\* C20: the configuration a process is started with has every listener
\* port shifted by the offset between the instance's port and the first
\* listener port of the stored configuration.
C20_AllListenersShifted ==
  \A p \in Pids :
    procs[p].st # "none" =>
      LET orig == conn[procs[p].o].cfg
      IN /\ Len(procs[p].cfg) = Len(orig)
         /\ \A i \in 1..Len(orig) :
              procs[p].cfg[i] = orig[i] + (procs[p].cfg[1] - orig[1])

\* C21: a start(id) of an instance whose configuration has no inbound
\* spawns no process, leaves the instance Error with the configuration
\* error and no process handle, and throws that error to its caller.
C21_NoListenerFails ==
  [][/\ \A tk \in TaskSet :
          (/\ At(tk, "start", "entry")
           /\ getConnection(Top(tk).id) # 0
           /\ ~IsActive(conn[getConnection(Top(tk).id)].status)
           /\ conn[getConnection(Top(tk).id)].cfg = <<>>) =>
             LET o == getConnection(Top(tk).id)
             IN /\ procs' = procs
                /\ conn'[o].proc = 0
                /\ conn'[o].status = ERROR
                /\ conn'[o].error = NoInboundsMsg
                /\ \E nt \in BagToSet(tasks') :
                     /\ Len(nt.stack) = Len(tk.stack) + 1
                     /\ nt.stack[Len(tk.stack)].pc = "start_failed"
                     /\ nt.stack[Len(tk.stack)].err = NoInboundsMsg
                     /\ tasks' = BagAdd(BagDel(tasks, tk), nt)
     /\ \A tk \in TaskSet :
          (At(tk, "start", "start_failed") /\ Top(tk).err = NoInboundsMsg) =>
             /\ ReturnedTo(tk, NoInboundsMsg)
             /\ procs' = procs
             /\ conn' = conn]_vars

\* The start of b, whose configuration has no inbound, has thrown the
\* configuration error; b is Error without a handle and nothing was spawned.
C21_Witness ==
  /\ lastRet = [id |-> "b", op |-> "start", res |-> NoInboundsMsg]
  /\ Spawned = {}
  /\ \E o \in Listed : /\ conn[o].id = "b"
                       /\ conn[o].cfg = <<>>
                       /\ conn[o].status = ERROR
                       /\ conn[o].error = NoInboundsMsg
                       /\ conn[o].proc = 0

\* The message of a port conflict.
PortInUseMsg(port, name) ==
  "Port " \o ToString(port) \o " is already in use by \"" \o name \o "\""

\* C22: an updatePort(id, newBasePort) where another instance of the list
\* has the port newBasePort fails with the conflict error and changes no
\* port and no status.
C22_PortConflictFails ==
  [][\A tk \in TaskSet :
       (/\ At(tk, "updatePort", "entry")
        /\ getConnection(Top(tk).id) # 0
        /\ \E o \in Listed : /\ conn[o].id # Top(tk).id
                             /\ conn[o].port = Top(tk).basePort) =>
          /\ \E o \in Listed :
               /\ conn[o].id # Top(tk).id
               /\ conn[o].port = Top(tk).basePort
               /\ ReturnedTo(tk, PortInUseMsg(Top(tk).basePort, conn[o].id))
          /\ \A o \in Oids : /\ conn'[o].port = conn[o].port
                             /\ conn'[o].status = conn[o].status]_vars

\* The exit of a process is observed in this step while its instance, with
\* the id given, is Starting or Running.
CrashObserved(id) ==
  \E p \in Pids :
    /\ procs[p].st = "alive"
    /\ procs'[p].st = "closed"
    /\ conn[procs[p].o].id = id
    /\ IsActive(conn[procs[p].o].status)

\* C23: with the flag set, the step that observes the crash of a Starting
\* or Running instance calls startConnection for it exactly once, and no
\* other step (a start that fails by spawn error or timeout included)
\* calls it on its own; with the flag not set no step does.
C23_OneAutoRestart ==
  [][\A id \in Names :
       LET calls == CopiesIn(AutoStart(id), tasks') - CopiesIn(AutoStart(id), tasks)
       IN IF autoRestart /\ CrashObserved(id)
          THEN calls = 1
          ELSE calls <= 0]_vars

\* With the flag set and one start command issued, the first process has
\* crashed, the automatic start has spawned the second process and has
\* failed by timeout, and nothing is in flight.
C23_Witness ==
  /\ autoRestart
  /\ issued = 1
  /\ tasks = EmptyBag
  /\ procs[1].st = "closed"
  /\ procs[2].st # "none"
  /\ \E o \in Listed : /\ conn[o].status = ERROR
                       /\ conn[o].error = TimeoutMsg
                       /\ procs[2].o = o

\* C24: whenever no call, handler or file write is in flight, the file
\* holds the projection of the list as it is in memory.
C24_FileEqualsMemory ==
  tasks = EmptyBag => persisted = Snapshot(connections, conn)

\* The continuations of the commands after their last saveState.
SavedPcs ==
  {<<"add", "add_saved">>, <<"remove", "remove_saved">>,
   <<"reorder", "reorder_saved">>, <<"start", "start_saved">>,
   <<"stop", "stop_saved">>}

\* C25: a saveState whose write leaves the file as it was returns normally
\* to the operation that called it and changes nothing in memory; the
\* operation then returns its normal outcome (success, or for a failed
\* start the error of the start) and changes nothing in memory either.
C25_SaveFailureIsHarmless ==
  [][/\ \A tk \in TaskSet :
          (/\ NoRunnable
           /\ At(tk, "save", "save_write")
           /\ CopiesIn(tk, tasks') < CopiesIn(tk, tasks)
           /\ persisted' = persisted) =>
             /\ ReturnedTo(tk, OK)
             /\ connections' = connections
             /\ conn' = conn
     /\ \A tk \in TaskSet :
          (<<Top(tk).op, Top(tk).pc>> \in SavedPcs) =>
             /\ ReturnedTo(tk, OK)
             /\ connections' = connections
             /\ conn' = conn
     /\ \A tk \in TaskSet :
          At(tk, "start", "start_failed") =>
             /\ ReturnedTo(tk, Top(tk).err)
             /\ connections' = connections
             /\ conn' = conn]_vars

\* remove("a") has returned success and the list is [b] with the port of
\* position 0, while the file still holds [a, b]: every write failed.
C25_Witness ==
  /\ lastRet = [id |-> "a", op |-> "remove", res |-> OK]
  /\ tasks = EmptyBag
  /\ Len(connections) = 1
  /\ conn[connections[1]].id = "b"
  /\ conn[connections[1]].port = CONNECTION_START_PORT
  /\ Len(persisted) = 2
  /\ issued = 1

\* C26: loadState reads the file as it is, and when listConfigs has
\* answered the list is exactly the entries read whose id names a
\* configuration of the store, in the order of the file, each with the
\* port, status, start time and error of its entry, the configuration of
\* the store and no process handle.
C26_LoadRebuilds ==
  [][/\ \A tk \in TaskSet :
          (At(tk, "load", "load_read") /\ CopiesIn(tk, tasks') = 0) =>
             \E nt \in BagToSet(tasks') :
               At(nt, "load", "load_list") /\ Top(nt).snap = persisted
     /\ \A tk \in TaskSet :
          (At(tk, "load", "load_list") /\ CopiesIn(tk, tasks') = 0) =>
             LET file == Top(tk).snap
                 keptAt == {k \in 1..Len(file) : file[k].id \in DOMAIN store}
             IN /\ Len(connections') = Cardinality(keptAt)
                /\ \A k \in keptAt :
                     LET pos == Cardinality({j \in keptAt : j <= k})
                         c   == conn'[connections'[pos]]
                     IN /\ c.id = file[k].id
                        /\ c.port = file[k].port
                        /\ c.status = file[k].status
                        /\ c.connectionStartTime = file[k].connectionStartTime
                        /\ c.error = file[k].error
                        /\ c.cfg = store[file[k].id]
                        /\ c.proc = 0
                /\ \A i, j \in 1..Len(connections') :
                     i # j => connections'[i] # connections'[j]]_vars

\* The file [c, a] has been loaded with no configuration c in the store:
\* the list is [a], Running on its saved port 1081, without a process.
C26_Witness ==
  /\ LoadDone
  /\ issued = 0
  /\ Len(persisted) = 2
  /\ Len(connections) = 1
  /\ conn[connections[1]].id = "a"
  /\ conn[connections[1]].status = RUNNING
  /\ conn[connections[1]].port = CONNECTION_START_PORT + 1
  /\ conn[connections[1]].proc = 0

\* C27: migrateFromSingleConnection calls addConnection, for the active
\* configuration name, exactly when the server found no connections.json
\* at its start and there is an active name; it then calls startConnection
\* exactly when the single connection is Running; in every other case it
\* returns and changes nothing.
C27_MigrateOnlyWithoutFile ==
  [][/\ \A tk \in TaskSet :
          At(tk, "migrate", "entry") =>
             /\ connections' = connections
             /\ conn' = conn
             /\ IF tk.stack[1].fresh /\ Top(tk).id # ""
                THEN tasks' = Swap(tasks, tk,
                                   Call(tk, "migrate_added",
                                        Frame("add", "entry", Top(tk).id, 0)))
                ELSE ReturnedTo(tk, OK)
     /\ \A tk \in TaskSet :
          (At(tk, "migrate", "migrate_added") /\ tk.res = OK) =>
             /\ Len(connections) = 1
             /\ conn[connections[1]].id = Top(tk).id
             /\ IF Top(tk).w
                THEN tasks' = Swap(tasks, tk,
                                   Call(tk, "migrate_started",
                                        Frame("start", "entry", Top(tk).id, 0)))
                ELSE ReturnedTo(tk, OK)]_vars

\* The inbounds after the first, which createTempConfig leaves alone.
Rest(cfg) == IF cfg = <<>> THEN <<>> ELSE Tail(cfg)

C29_StartTimeOnlyWhenRunning ==
  \A o \in Listed : conn[o].connectionStartTime # 0 => conn[o].status = RUNNING

\* C30: an instance of the list whose status is Running has no error.
C30_RunningHasNoError ==
  \A o \in Listed : conn[o].status = RUNNING => conn[o].error = ""

\* The processes spawned for the instance object o that have not exited
\* and were not sent a signal.
LiveFor(o) ==
  {p \in Pids : procs[p].st \in {"spawning", "alive"} /\ procs[p].o = o /\ ~procs[p].killed}

\* The instance id is Stopped with no process handle and no live process.
StoppedQuiet(id) ==
  LET o == getConnection(id)
  IN /\ conn[o].status = STOPPED
     /\ conn[o].proc = 0
     /\ LiveFor(o) = {}

\* Every call in flight for instance id is a start of the user that has
\* passed its entry: when the instance is Stopped, these starts were in
\* progress when it was stopped, the stop has returned and no start,
\* restart or batch start was issued for it since.
OnlyEarlierStarts(id) ==
  \A tk \in TaskSet :
    (\E i \in 1..Len(tk.stack) : tk.stack[i].id = id) =>
      /\ tk.stack[1].op = "start"
      /\ Top(tk).pc # "entry"
      /\ ~tk.bg

\* C31: once a stop(id) has returned, the instance stays Stopped with no
\* process handle and no live process as long as no start or restart is
\* issued for it, also when the stop was issued while a start(id) was in
\* progress.
C31_StopIsFinal ==
  [][\A id \in Names :
       (StoppedQuiet(id) /\ OnlyEarlierStarts(id) /\ OnlyEarlierStarts(id)')
         => StoppedQuiet(id)']_vars

\* C32: when the settle delay of a start ends after the exit of its
\* process was observed, and the instance is still Error with no process
\* handle, the start leaves it Error with no process handle.
C32_ExitDuringSettle ==
  [][\A tk \in TaskSet :
       LET f == Top(tk)
       IN (/\ NoRunnable
           /\ At(tk, "start", "start_settle")
           /\ procs[f.pid] = Closed
           /\ conn[f.o].status = ERROR
           /\ conn[f.o].proc = 0
           /\ CopiesIn(tk, tasks') < CopiesIn(tk, tasks))
          => /\ conn'[f.o].status = ERROR
             /\ conn'[f.o].proc = 0]_vars

\* The calls of startConnection for instance id, in flight in the bag b.
StartsOf(b, id) ==
  BagCardinality([tk \in {x \in BagToSet(b) : Top(x).op = "start" /\ Top(x).id = id}
                    |-> b[tk]])

\* C33: the exit or the error of a process, observed when the process
\* handle of its instance is a newer process, changes no field of the
\* instance and starts nothing.
C33_StaleEventIgnored ==
  [][\A p \in Pids :
       (/\ procs[p].st \in {"spawning", "alive"}
        /\ procs'[p].st = "closed"
        /\ conn[procs[p].o].proc \notin {0, p})
       => /\ conn'[procs[p].o] = conn[procs[p].o]
          /\ StartsOf(tasks', conn[procs[p].o].id) = StartsOf(tasks, conn[procs[p].o].id)]_vars

\* C34: every process that was spawned, has not exited and was not sent a
\* signal is the process handle of an instance of the list.
C34_NoOrphanProcess ==
  \A p \in Pids :
    (procs[p].st \in {"spawning", "alive"} /\ ~procs[p].killed)
      => \E o \in Listed : conn[o].proc = p

\* C35: an instance of the list whose status is Running has a process
\* handle, and the handle refers to a process that was spawned for it and
\* whose exit was not observed.
C35_RunningHasLiveProcess ==
  \A o \in Listed :
    conn[o].status = RUNNING =>
      /\ conn[o].proc # 0
      /\ procs[conn[o].proc].st \in {"spawning", "alive"}
      /\ procs[conn[o].proc].o = o

\* A call of startConnection for instance id is in flight next to task tk.
OtherStart(tk, id) ==
  \/ CopiesIn(tk, tasks) > 1
  \/ \E x \in TaskSet \ {tk} : \E i \in 1..Len(x.stack) :
       x.stack[i].op = "start" /\ x.stack[i].id = id

\* C36: a start of a listed instance that has no process handle, and for
\* which no other start is in flight, is not a no-op: the instance becomes
\* Starting, or Error when its configuration cannot be derived.
C36_StartAfterLoadSpawns ==
  [][\A tk \in TaskSet :
       LET o == getConnection(Top(tk).id)
       IN (/\ At(tk, "start", "entry")
           /\ o # 0
           /\ conn[o].proc = 0
           /\ ~OtherStart(tk, Top(tk).id)
           /\ CopiesIn(tk, tasks') < CopiesIn(tk, tasks))
          => conn'[o].status \in {STARTING, ERROR}]_vars

\* The list holds every instance that was created, once.
EveryInstanceOnce ==
  /\ \A i, j \in 1..Len(connections) : i # j => connections[i] # connections[j]
  /\ Listed = {o \in Oids : conn[o].id # ""}

\* C37: the updatePorts of a remove or a reorder does not change the
\* status, the process handle or the start time of a listed instance whose
\* port the operation leaves as it is; the case checked is the reorder
\* that leaves every instance in the list.
C37_UnchangedPortUntouched ==
  [][\A tk \in TaskSet :
       LET f == Top(tk)
           o == getConnection(f.id)
       IN (/\ Len(tk.stack) >= 2
           /\ EveryInstanceOnce
           /\ tk.stack[Len(tk.stack) - 1].op = "uports"
           /\ At(tk, "stop", "entry")
           /\ o # 0
           /\ AssignedPorts(connections, conn)[o].port = conn[o].port
           /\ CopiesIn(tk, tasks') < CopiesIn(tk, tasks))
          => /\ conn'[o].status = conn[o].status
             /\ conn'[o].proc = conn[o].proc
             /\ conn'[o].connectionStartTime = conn[o].connectionStartTime]_vars

\* C38: two instances of the list with distinct ids have distinct
\* temporary configuration paths, and a start never writes the file that a
\* live process of another Starting or Running instance was launched from.
C38_TempPathsDistinct ==
  /\ \A o1, o2 \in Listed :
       conn[o1].id # conn[o2].id =>
         tempConfigPath(conn[o1].id) # tempConfigPath(conn[o2].id)
  /\ \A tk \in TaskSet : \A q \in Pids :
       (/\ At(tk, "start", "start_tmp")
        /\ procs[q].st \in {"spawning", "alive"}
        /\ procs[q].o # Top(tk).o
        /\ IsActive(conn[procs[q].o].status))
       => Top(tk).path # procs[q].path

\* A call of startConnection for instance id is in flight.
StartInFlight(id) ==
  \E tk \in TaskSet : \E i \in 1..Len(tk.stack) :
    tk.stack[i].op = "start" /\ tk.stack[i].id = id

\* At most one command is in flight for instance id, and it is a start.
OnlyStartFor(id) ==
  LET cmds == {tk \in TaskSet : tk.stack[1].id = id /\ ~tk.bg}
  IN /\ \A tk \in cmds : tk.stack[1].op = "start" /\ CopiesIn(tk, tasks) = 1
     /\ Cardinality(cmds) <= 1

\* The start of instance id has just returned to the request layer.
StartReturned(id) == lastRet.op = "start" /\ lastRet.id = id

\* C39: under the fairness of the event loop every call of startConnection
\* returns; in a behaviour where no other command is issued for the
\* instance, it is Running or Error when a start of it returns, and
\* whenever it is Starting it becomes Running or Error later.
C39_StartTerminates ==
  \A id \in Names :
    /\ StartInFlight(id) ~> ~StartInFlight(id)
    /\ ([]OnlyStartFor(id)) =>
         /\ [](StartReturned(id) =>
                 conn[getConnection(id)].status \in {RUNNING, ERROR})
         /\ (conn[getConnection(id)].status = STARTING)
              ~> (conn[getConnection(id)].status \in {RUNNING, ERROR})

\* The start of a alone has returned success and a is Running.
C39_Witness ==
  /\ lastRet = [id |-> "a", op |-> "start", res |-> OK]
  /\ issued = 1
  /\ conn[getConnection("a")].status = RUNNING
  /\ conn[getConnection("a")].proc # 0
  /\ procs[conn[getConnection("a")].proc].st = "alive"

\* C40: with the automatic restart, where every process comes to an end,
\* the restarts of an instance stop after one start by the user: from some
\* point on it has no process handle and no start of it is in flight.
C40_RestartsEnd ==
  \A id \in FailNames :
    autoRestart =>
      <>[](conn[getConnection(id)].proc = 0 /\ ~StartInFlight(id))

====
